---- MODULE Spec2Model ----
(***************************************************************************)
(* Model of snipster's repository layer (src/src/snipster/repo.py) and of  *)
(* the Snippet record (src/src/snipster/models.py).                        *)
(*                                                                         *)
(* Text is a sequence of one-character strings, so that split, strip,      *)
(* join and sorted are computed as Python computes them.  An Optional      *)
(* value is None (the empty tuple) or Some(x) (a one-element tuple).       *)
(***************************************************************************)
EXTENDS Integers, Sequences, FiniteSets, TLC

VARIABLES backend, snippets, json_file, db_table, now, last, hist,
          procs, session_state, page

vars == <<backend, snippets, json_file, db_table, now, last, hist,
          procs, session_state, page>>

(* ----------------------------- bounds ---------------------------------- *)

\* add is not taken once the store holds this many snippets
MaxStored == 2
\* add is not taken when the id it would assign exceeds this
MaxId == 3
\* the clock stops here
MaxTime == 1
\* SpecTags: tag is not taken once the stored tag string is longer than this
MaxTagStrLen == 3
\* SpecTags: at most this many tag arguments in one call
MaxArgs == 1

(* ----------------------------- Optional -------------------------------- *)

None == <<>>

Some(x) == <<x>>

(* ------------------------------- text ---------------------------------- *)

\* code point of a character (only the order matters)
Ord(c) ==
  CASE c = " " -> 32
    [] c = "," -> 44
    [] c = "a" -> 97
    [] c = "b" -> 98
    [] c = "c" -> 99
    [] c = "d" -> 100
    [] OTHER -> 120

\* Python's < on str: lexicographic by code point
RECURSIVE StrLess(_, _)
StrLess(s, t) ==
  IF t = <<>> THEN FALSE
  ELSE IF s = <<>> THEN TRUE
  ELSE IF Ord(Head(s)) # Ord(Head(t)) THEN Ord(Head(s)) < Ord(Head(t))
  ELSE StrLess(Tail(s), Tail(t))

\* str.split(","): always at least one piece
RECURSIVE split(_)
split(s) ==
  IF \A i \in 1..Len(s) : s[i] # "," THEN <<s>>
  ELSE LET k == CHOOSE i \in 1..Len(s) :
                  s[i] = "," /\ \A j \in 1..(i - 1) : s[j] # ","
       IN <<SubSeq(s, 1, k - 1)>> \o split(SubSeq(s, k + 1, Len(s)))

\* ",".join(list)
RECURSIVE join(_)
join(l) ==
  IF l = <<>> THEN <<>>
  ELSE IF Len(l) = 1 THEN l[1]
  ELSE l[1] \o <<",">> \o join(Tail(l))

\* str.strip(): drops leading and trailing whitespace
RECURSIVE strip(_)
strip(s) ==
  IF s = <<>> THEN s
  ELSE IF Head(s) = " " THEN strip(Tail(s))
  ELSE IF s[Len(s)] = " " THEN strip(SubSeq(s, 1, Len(s) - 1))
  ELSE s

Range(l) == {l[i] : i \in 1..Len(l)}

\* every order in which iterating a Python set of text can yield its members
RECURSIVE SetOrders(_)
SetOrders(S) ==
  IF S = {} THEN {<<>>}
  ELSE UNION {{<<x>> \o p : p \in SetOrders(S \ {x})} : x \in S}

\* one of those orders
RECURSIVE SomeOrder(_)
SomeOrder(S) ==
  IF S = {} THEN <<>>
  ELSE LET x == CHOOSE y \in S : TRUE IN <<x>> \o SomeOrder(S \ {x})

\* sorted(list) of text
RECURSIVE sorted(_)
sorted(l) ==
  IF l = <<>> THEN <<>>
  ELSE LET k == CHOOSE i \in 1..Len(l) :
                  \A j \in 1..Len(l) :
                    /\ ~StrLess(l[j], l[i])
                    /\ (l[j] = l[i] => i <= j)
       IN <<l[k]>> \o sorted(SubSeq(l, 1, k - 1) \o SubSeq(l, k + 1, Len(l)))

\* list.remove(x): drops the first occurrence
list_remove(l, x) ==
  LET k == CHOOSE i \in 1..Len(l) : l[i] = x /\ \A j \in 1..(i - 1) : l[j] # x
  IN SubSeq(l, 1, k - 1) \o SubSeq(l, k + 1, Len(l))

\* str.lower(), on the letters the model's texts hold in upper case
lower_char(c) ==
  CASE c = "A" -> "a"
    [] c = "B" -> "b"
    [] c = "C" -> "c"
    [] c = "S" -> "s"
    [] OTHER -> c

lower(s) == [i \in 1..Len(s) |-> lower_char(s[i])]

\* sub in s
contains(sub, s) ==
  \E i \in 0..(Len(s) - Len(sub)) : SubSeq(s, i + 1, i + Len(sub)) = sub

\* str(n) of a natural number
Digits == <<"0", "1", "2", "3", "4", "5", "6", "7", "8", "9">>

RECURSIVE str_int(_)
str_int(n) ==
  IF n < 10 THEN <<Digits[n + 1]>>
  ELSE str_int(n \div 10) \o <<Digits[(n % 10) + 1]>>

(* --------------------------- small helpers ------------------------------ *)

\* max(ids, default=0)
Max(S, default) ==
  IF S = {} THEN default ELSE CHOOSE m \in S : \A x \in S : x <= m

\* indices of a list, in order, as a set
Indices(l) == 1..Len(l)

\* the list without its element at index k (del l[k])
del(l, k) == SubSeq(l, 1, k - 1) \o SubSeq(l, k + 1, Len(l))

T_abc == <<"a", "b", "c">>

T_bcd == <<"b", "c", "d">>

T_ab == <<"a", "b">>

T_cd == <<"c", "d">>

T_d == <<"d">>

(* ------------------- state outside the repositories --------------------- *)

\* a caller in the middle of an operation: where it is, what it was asked,
\* what it has read so far and what it answered; load_at and save_at are the
\* numbers of steps the callers had taken before its read and its write
Procs == {1, 2}

Idle == [pc |-> "idle", op |-> "", id |-> <<>>, arg |-> <<>>, data |-> <<>>,
         result |-> "", load_at |-> 0, save_at |-> 0]

NoProcs == [p \in Procs |-> Idle]

\* the dashboard's session: the keys set so far and their values (a key that
\* is not set reads as None or FALSE here)
session_state_init ==
  [keys |-> {"view_id", "current_menu"},
   view_id |-> <<>>,
   current_menu |-> "List Snippets",
   edit_snippet_id |-> <<>>,
   run_snippet_id |-> <<>>,
   auto_run |-> FALSE]

\* the page of the last script run: what the user did, what was shown, the
\* requests sent, and whether the script asked to be run again
NoPage == [event |-> "open", shown |-> "list", field |-> <<>>, sent |-> <<>>,
           rerun |-> FALSE]

(* ------------------------------ models.py ------------------------------ *)

\* Language: a StrEnum member has a name and a value (the stored token)
Language == {[name |-> "PYTHON", value |-> "python"],
             [name |-> "RUST", value |-> "rust"]}

PYTHON == CHOOSE m \in Language : m.name = "PYTHON"

RUST == CHOOSE m \in Language : m.name = "RUST"

\* Language(value): the member whose value is the token
Language_of(value) == CHOOSE m \in Language : m.value = value

\* the default of created_at and updated_at is datetime.now() evaluated once,
\* when the class is defined: the moment the module is imported
ImportTime == 0

\* Snippet(**kwargs): no validation; kw.stamps says whether created_at and
\* updated_at were left out ("omitted": the class default applies) or passed
\* as None ("none": __init__ fills in the current time t)
Snippet(kw, t) ==
  [id |-> kw.id,
   title |-> kw.title,
   code |-> kw.code,
   description |-> kw.description,
   language |-> kw.language,
   tags |-> kw.tags,
   favorite |-> kw.favorite,
   created_at |-> IF kw.stamps = "omitted" THEN ImportTime ELSE t,
   updated_at |-> IF kw.stamps = "omitted" THEN ImportTime ELSE t]

\* Snippet.create: the raw constructor, then both stamps set to now
create(kw, t) ==
  [Snippet(kw, t) EXCEPT !.updated_at = t, !.created_at = t]

\* a create_snippet that takes a title of any length
create_snippet_any_title(kw, t) ==
  Some(create([kw EXCEPT !.id = None, !.stamps = "omitted"], t))

\* Snippet.create_snippet: Some(snippet), or None when it raises ValueError
\* ("Title must be at least 3 characters long.")
create_snippet(kw, t) ==
  IF Len(kw.title) < 3 THEN None
  ELSE Some(create([kw EXCEPT !.id = None, !.stamps = "omitted"], t))

\* Snippet.tag_list
tag_list(snippet) ==
  IF snippet.tags # None /\ snippet.tags[1] # <<>>
  THEN split(snippet.tags[1])
  ELSE <<>>

\* the characters of a language token and of a timestamp, as an f-string
\* renders them
str_language(m) ==
  IF m.value = "python" THEN <<"p", "y", "t", "h", "o", "n">>
  ELSE <<"r", "u", "s", "t">>

str_datetime(t) == <<"2", "0", "2", "5", "-", "0">> \o str_int(t)

\* Snippet.__str__:
\* "Snippet(id=.., title=.., language=.., created_at=..)"
Snippet_str(snippet) ==
  <<"S", "n", "i", "p", "p", "e", "t", "(", "i", "d", "=">>
    \o (IF snippet.id = None THEN <<"N", "o", "n", "e">>
        ELSE str_int(snippet.id[1]))
    \o <<",", " ", "t", "i", "t", "l", "e", "=">> \o snippet.title
    \o <<",", " ", "l", "a", "n", "g", "u", "a", "g", "e", "=">>
    \o str_language(snippet.language)
    \o <<",", " ", "c", "r", "e", "a", "t", "e", "d", "_", "a", "t", "=">>
    \o str_datetime(snippet.created_at) \o <<")">>

(* ------------------- SnippetRepository._update_tags -------------------- *)

\* the loop of lines 116-119 over tags[i..]: strip each tag and remove its
\* first occurrence from existing when it is there
RECURSIVE remove_loop(_, _)
remove_loop(existing, tags) ==
  IF tags = <<>> THEN existing
  ELSE LET tag == strip(Head(tags))
       IN remove_loop(IF tag \in Range(existing)
                      THEN list_remove(existing, tag)
                      ELSE existing,
                      Tail(tags))

\* an update that keeps the given tags alone and drops the snippet's own
update_tags_given_only(snippet, tags, remove, sort) ==
  {IF tags # <<>> THEN join(tags) ELSE <<>>}

\* the tag strings _update_tags can return: one for each order in which
\* list(set(existing)) can come out (when sort is true sorted() follows and
\* the order is immaterial, so one order stands for all)
update_tags(snippet, tags, remove, sort) ==
  LET existing0 == tag_list(snippet) \o tags
      orders == IF sort
                THEN {SomeOrder(Range(existing0))}
                ELSE SetOrders(Range(existing0))
      finish(existing1) ==
        LET existing2 == IF remove THEN remove_loop(existing1, tags)
                         ELSE existing1
            existing3 == IF sort THEN sorted(existing2) ELSE existing2
        IN IF existing3 # <<>> THEN join(existing3) ELSE <<>>
  IN {finish(e) : e \in orders}

(* --------------------------- repository state ------------------------- *)

Backends == {"mem", "db", "json"}

\* what the last repository call was and how it ended:
\*   result "ok"    the call returned (ret: the snippet it returned or, for
\*                  add, the caller's snippet as add left it)
\*   result "None"  get returned None
\*   otherwise      the name of the exception raised, msg its message
\* term and language are the arguments of a search (ret: the list found);
\* sent is the set of outside services a route or command sent a request to
\* body is the request body or the arguments a snippet is created from
\* cli_sort is whether the CLI's tag command was given --sort
Call(op, id, preset, tags, remove, sort, result, msg, ret) ==
  [op |-> op, id |-> id, preset |-> preset, tags |-> tags, remove |-> remove,
   result |-> result, msg |-> msg, ret |-> ret,
   term |-> <<>>, language |-> None, sent |-> {}, body |-> None,
   cli_sort |-> FALSE]

NoCall == Call("none", None, FALSE, <<>>, FALSE, FALSE, "ok", "", None)

NotFound(op, id, tags, remove, sort) ==
  Call(op, Some(id), FALSE, tags, remove, sort,
       "SnippetNotFoundError", "Snippet with ID {snippet_id} not found.", None)

\* hist.assigned: the ids add has assigned so far (not those a caller
\* pre-set); hist.preset: whether a caller has ever pre-set an id
Assigned(id, snippet) ==
  [assigned |-> hist.assigned \cup {id},
   preset |-> hist.preset \/ snippet.id # None]

\* a search that returned the list found
Found(term, language, results) ==
  [Call("search", None, FALSE, <<>>, FALSE, FALSE, "ok", "", results)
     EXCEPT !.term = term, !.language = language]

\* language is None or snippet.language == language
language_matches(snippet, language) ==
  language = None \/ snippet.language = language[1]

(* ------------------------- InMemorySnippetRepo ------------------------- *)

\* self.snippets: a dict, kept as the list of its items in insertion order
dict_keys(d) == {d[i].key : i \in Indices(d)}

dict_values(d) == [i \in Indices(d) |-> d[i].value]

\* d[k] (k is a key of d)
dict_get(d, k) == d[CHOOSE i \in Indices(d) : d[i].key = k].value

\* d[k] = v
dict_set(d, k, v) ==
  IF k \in dict_keys(d)
  THEN [i \in Indices(d) |-> IF d[i].key = k THEN [key |-> k, value |-> v] ELSE d[i]]
  ELSE Append(d, [key |-> k, value |-> v])

\* a pop that leaves the dict as it is
dict_pop_nothing(d, k) == d

\* d.pop(k, None)
dict_pop(d, k) ==
  IF k \in dict_keys(d)
  THEN del(d, CHOOSE i \in Indices(d) : d[i].key = k)
  ELSE d

\* a next id taken from the number of stored snippets, not from the largest id
InMemory_next_id_from_len(d) == Len(d) + 1

\* line 132: max(self.snippets.keys(), default=0) + 1
InMemory_next_id(d) == Max(dict_keys(d), 0) + 1

InMemorySnippetRepo_init ==
  /\ snippets = <<>>
  /\ json_file = <<>>
  /\ db_table = <<>>

InMemorySnippetRepo_add(snippet) ==
  LET next_id == InMemory_next_id(snippets)
      stored == [snippet EXCEPT !.id = Some(next_id)]
  IN /\ backend = "mem"
     /\ Len(snippets) < MaxStored
     /\ next_id <= MaxId
     /\ snippets' = dict_set(snippets, next_id, stored)
     /\ last' = Call("add", Some(next_id), snippet.id # None, <<>>, FALSE,
                     FALSE, "ok", "", Some(stored))
     /\ hist' = Assigned(next_id, snippet)
     /\ UNCHANGED <<backend, procs, session_state, page, json_file, db_table, now>>

InMemorySnippetRepo_list == dict_values(snippets)

InMemorySnippetRepo_get(snippet_id) ==
  /\ backend = "mem"
  /\ last' = IF snippet_id \notin dict_keys(snippets)
             THEN Call("get", Some(snippet_id), FALSE, <<>>, FALSE, FALSE,
                       "None", "", None)
             ELSE Call("get", Some(snippet_id), FALSE, <<>>, FALSE, FALSE,
                       "ok", "", Some(dict_get(snippets, snippet_id)))
  /\ UNCHANGED <<backend, procs, session_state, page, snippets, json_file, db_table, now, hist>>

InMemorySnippetRepo_delete(snippet_id) ==
  /\ backend = "mem"
  /\ IF snippet_id \notin dict_keys(snippets)
     THEN /\ last' = NotFound("delete", snippet_id, <<>>, FALSE, FALSE)
          /\ UNCHANGED snippets
     ELSE /\ snippets' = dict_pop(snippets, snippet_id)
          /\ last' = Call("delete", Some(snippet_id), FALSE, <<>>, FALSE,
                          FALSE, "ok", "", None)
  /\ UNCHANGED <<backend, procs, session_state, page, json_file, db_table, now, hist>>

\* a toggle that sets the flag instead of negating it
InMemorySnippetRepo_set_favorite(snippet_id) ==
  /\ backend = "mem"
  /\ IF snippet_id \notin dict_keys(snippets)
     THEN /\ last' = NotFound("toggle_favorite", snippet_id, <<>>, FALSE, FALSE)
          /\ UNCHANGED snippets
     ELSE LET snippet == dict_get(snippets, snippet_id)
          IN /\ snippets' = dict_set(snippets, snippet_id,
                              [snippet EXCEPT !.favorite = TRUE])
             /\ last' = Call("toggle_favorite", Some(snippet_id), FALSE, <<>>,
                             FALSE, FALSE, "ok", "", None)
  /\ UNCHANGED <<backend, procs, session_state, page, json_file, db_table, now, hist>>

InMemorySnippetRepo_toggle_favorite(snippet_id) ==
  /\ backend = "mem"
  /\ IF snippet_id \notin dict_keys(snippets)
     THEN /\ last' = NotFound("toggle_favorite", snippet_id, <<>>, FALSE, FALSE)
          /\ UNCHANGED snippets
     ELSE LET snippet == dict_get(snippets, snippet_id)
          IN /\ snippets' = dict_set(snippets, snippet_id,
                              [snippet EXCEPT !.favorite = ~snippet.favorite])
             /\ last' = Call("toggle_favorite", Some(snippet_id), FALSE, <<>>,
                             FALSE, FALSE, "ok", "", None)
  /\ UNCHANGED <<backend, procs, session_state, page, json_file, db_table, now, hist>>

\* lines 192-198: get (None when missing), then the remove-without-tags
\* check, then the not-found check
InMemorySnippetRepo_tag(snippet_id, tags, remove, sort) ==
  /\ backend = "mem"
  /\ IF remove /\ tags = <<>>
     THEN /\ last' = Call("tag", Some(snippet_id), FALSE, tags, remove, sort,
                          "ValueError", "No tags provided to remove.", None)
          /\ UNCHANGED snippets
     ELSE IF snippet_id \notin dict_keys(snippets)
     THEN /\ last' = NotFound("tag", snippet_id, tags, remove, sort)
          /\ UNCHANGED snippets
     ELSE LET snippet == dict_get(snippets, snippet_id)
          IN \E new_tags \in update_tags(snippet, tags, remove, sort) :
               /\ snippets' = dict_set(snippets, snippet_id,
                                [snippet EXCEPT !.tags = Some(new_tags)])
               /\ last' = Call("tag", Some(snippet_id), FALSE, tags, remove,
                               sort, "ok", "", None)
  /\ UNCHANGED <<backend, procs, session_state, page, json_file, db_table, now, hist>>

\* lines 150-157: the term is looked up in str(snippet)
InMemorySnippetRepo_search(term, language) ==
  /\ backend = "mem"
  /\ last' = Found(term, language,
                   SelectSeq(dict_values(snippets),
                     LAMBDA snippet :
                       /\ contains(lower(term), lower(Snippet_str(snippet)))
                       /\ language_matches(snippet, language)))
  /\ UNCHANGED <<backend, procs, session_state, page, snippets, json_file, db_table, now, hist>>

(* ---------------------------- DBSnippetRepo ---------------------------- *)

\* the snippet table: its rows in primary-key order.  session.get and
\* select(...).where(Snippet.id == snippet_id).first() find the row of a key
db_keys(t) == {t[i].id[1] : i \in Indices(t)}

db_row(t, k) == CHOOSE i \in Indices(t) : t[i].id = Some(k)

\* INSERT without an id: SQLite gives an INTEGER PRIMARY KEY the largest
\* rowid in the table plus one
db_next_id(t) == Max(db_keys(t), 0) + 1

\* lines 208-211, for a snippet whose id is None (create_snippet's; the CLI
\* and the API add no other)
DBSnippetRepo_add(snippet) ==
  LET next_id == db_next_id(db_table)
      stored == [snippet EXCEPT !.id = Some(next_id)]
  IN /\ backend = "db"
     /\ snippet.id = None
     /\ Len(db_table) < MaxStored
     /\ next_id <= MaxId
     /\ db_table' = Append(db_table, stored)
     /\ last' = Call("add", Some(next_id), FALSE, <<>>, FALSE, FALSE,
                     "ok", "", Some(stored))
     /\ hist' = Assigned(next_id, snippet)
     /\ UNCHANGED <<backend, procs, session_state, page, snippets, json_file, now>>

DBSnippetRepo_list == db_table

DBSnippetRepo_get(snippet_id) ==
  /\ backend = "db"
  /\ last' = IF snippet_id \notin db_keys(db_table)
             THEN NotFound("get", snippet_id, <<>>, FALSE, FALSE)
             ELSE Call("get", Some(snippet_id), FALSE, <<>>, FALSE, FALSE,
                       "ok", "", Some(db_table[db_row(db_table, snippet_id)]))
  /\ UNCHANGED <<backend, procs, session_state, page, snippets, json_file, db_table, now, hist>>

DBSnippetRepo_delete(snippet_id) ==
  /\ backend = "db"
  /\ IF snippet_id \notin db_keys(db_table)
     THEN /\ last' = NotFound("delete", snippet_id, <<>>, FALSE, FALSE)
          /\ UNCHANGED db_table
     ELSE /\ db_table' = del(db_table, db_row(db_table, snippet_id))
          /\ last' = Call("delete", Some(snippet_id), FALSE, <<>>, FALSE,
                          FALSE, "ok", "", None)
  /\ UNCHANGED <<backend, procs, session_state, page, snippets, json_file, now, hist>>

\* a toggle that negates the flag of every row
DBSnippetRepo_toggle_every_favorite(snippet_id) ==
  /\ backend = "db"
  /\ IF snippet_id \notin db_keys(db_table)
     THEN /\ last' = NotFound("toggle_favorite", snippet_id, <<>>, FALSE, FALSE)
          /\ UNCHANGED db_table
     ELSE /\ db_table' = [i \in Indices(db_table) |->
                            [db_table[i] EXCEPT !.favorite = ~@]]
          /\ last' = Call("toggle_favorite", Some(snippet_id), FALSE, <<>>,
                          FALSE, FALSE, "ok", "", None)
  /\ UNCHANGED <<backend, procs, session_state, page, snippets, json_file, now, hist>>

DBSnippetRepo_toggle_favorite(snippet_id) ==
  /\ backend = "db"
  /\ IF snippet_id \notin db_keys(db_table)
     THEN /\ last' = NotFound("toggle_favorite", snippet_id, <<>>, FALSE, FALSE)
          /\ UNCHANGED db_table
     ELSE LET k == db_row(db_table, snippet_id)
          IN /\ db_table' = [db_table EXCEPT ![k].favorite = ~@]
             /\ last' = Call("toggle_favorite", Some(snippet_id), FALSE, <<>>,
                             FALSE, FALSE, "ok", "", None)
  /\ UNCHANGED <<backend, procs, session_state, page, snippets, json_file, now, hist>>

\* lines 292-299: no check of remove without tags
DBSnippetRepo_tag(snippet_id, tags, remove, sort) ==
  /\ backend = "db"
  /\ IF snippet_id \notin db_keys(db_table)
     THEN /\ last' = NotFound("tag", snippet_id, tags, remove, sort)
          /\ UNCHANGED db_table
     ELSE LET k == db_row(db_table, snippet_id)
          IN \E new_tags \in update_tags(db_table[k], tags, remove, sort) :
               /\ db_table' = [db_table EXCEPT ![k].tags = Some(new_tags)]
               /\ last' = Call("tag", Some(snippet_id), FALSE, tags, remove,
                               sort, "ok", "", None)
  /\ UNCHANGED <<backend, procs, session_state, page, snippets, json_file, now, hist>>

\* lines 234-255: the term is looked up in the title and in the code
DBSnippetRepo_search(term, language) ==
  /\ backend = "db"
  /\ last' = Found(term, language,
                   SelectSeq(DBSnippetRepo_list,
                     LAMBDA snippet :
                       /\ \/ contains(lower(term), lower(snippet.title))
                          \/ contains(lower(term), lower(snippet.code))
                       /\ language_matches(snippet, language)))
  /\ UNCHANGED <<backend, procs, session_state, page, snippets, json_file, db_table, now, hist>>

(* --------------------------- JSONSnippetRepo --------------------------- *)

\* datetime.isoformat(): the ISO-8601 text of a moment
isoformat(t) == <<"iso", t>>

\* a parser that keeps the date and drops the time of day
fromisoformat_date_only(text) == 0

\* what validation makes of the ISO-8601 text
fromisoformat(text) == text[2]

\* one object of the file: s.model_dump() as json.dump writes it with
\* DateTimeEncoder (a Language as its value, a datetime as ISO text)
json_dump(s) ==
  [id |-> s.id,
   title |-> s.title,
   code |-> s.code,
   description |-> s.description,
   language |-> s.language.value,
   tags |-> s.tags,
   favorite |-> s.favorite,
   created_at |-> isoformat(s.created_at),
   updated_at |-> isoformat(s.updated_at)]

\* a loader that leaves every snippet with the default language
model_validate_default_language(item) ==
  [id |-> item.id, title |-> item.title, code |-> item.code,
   description |-> item.description, language |-> PYTHON,
   tags |-> item.tags, favorite |-> item.favorite,
   created_at |-> fromisoformat(item.created_at),
   updated_at |-> fromisoformat(item.updated_at)]

\* Snippet.model_validate(item)
model_validate(item) ==
  [id |-> item.id,
   title |-> item.title,
   code |-> item.code,
   description |-> item.description,
   language |-> Language_of(item.language),
   tags |-> item.tags,
   favorite |-> item.favorite,
   created_at |-> fromisoformat(item.created_at),
   updated_at |-> fromisoformat(item.updated_at)]

\* a load that finds no snippets in the file
JSON_load_nothing(file) == <<>>

JSON_load(file) == [i \in Indices(file) |-> model_validate(file[i])]

JSON_save(list) == [i \in Indices(list) |-> json_dump(list[i])]

\* self.path.read_text(): the text json.dump wrote, brackets around one
\* object for each snippet (the objects' own text is left out)
read_text(file) == <<"[">> \o [i \in Indices(file) |-> "{"] \o <<"]">>

\* lines 315-322: a repository constructed on the file as it is; a file
\* whose text is blank is given the text "[]".  The call is followed by
\* list(), whose result ret holds; msg is the text __init__ wrote, if any.
JSONSnippetRepo_reopen ==
  LET blank == strip(read_text(json_file)) = <<>>
      file1 == IF blank THEN <<>> ELSE json_file
  IN /\ backend = "json"
     /\ json_file' = file1
     /\ last' = Call("init", None, FALSE, <<>>, FALSE, FALSE, "ok",
                     IF blank THEN "[]" ELSE "", JSON_load(file1))
     /\ UNCHANGED <<backend, procs, session_state, page, snippets, db_table, now, hist>>

\* line 342: max((s.id for s in snippets), default=0) + 1
JSON_next_id(list) == Max({list[i].id[1] : i \in Indices(list)}, 0) + 1

\* the index of the first snippet of the list with the id, 0 when none has it
JSON_find(list, snippet_id) ==
  IF \E i \in Indices(list) : list[i].id = Some(snippet_id)
  THEN CHOOSE i \in Indices(list) :
         /\ list[i].id = Some(snippet_id)
         /\ \A j \in 1..(i - 1) : list[j].id # Some(snippet_id)
  ELSE 0

JSONSnippetRepo_add(snippet) ==
  LET loaded == JSON_load(json_file)
      stored == IF snippet.id = None
                THEN [snippet EXCEPT !.id = Some(JSON_next_id(loaded)),
                                     !.created_at = now,
                                     !.updated_at = now]
                ELSE snippet
  IN /\ backend = "json"
     /\ Len(json_file) < MaxStored
     /\ stored.id[1] <= MaxId
     /\ json_file' = JSON_save(Append(loaded, stored))
     /\ last' = Call("add", stored.id, snippet.id # None, <<>>, FALSE, FALSE,
                     "ok", "", Some(stored))
     /\ hist' = IF snippet.id = None THEN Assigned(stored.id[1], snippet)
                ELSE [hist EXCEPT !.preset = TRUE]
     /\ UNCHANGED <<backend, procs, session_state, page, snippets, db_table, now>>

JSONSnippetRepo_list == JSON_load(json_file)

JSONSnippetRepo_get(snippet_id) ==
  LET loaded == JSON_load(json_file)
      k == JSON_find(loaded, snippet_id)
  IN /\ backend = "json"
     /\ last' = IF k = 0
                THEN NotFound("get", snippet_id, <<>>, FALSE, FALSE)
                ELSE Call("get", Some(snippet_id), FALSE, <<>>, FALSE, FALSE,
                          "ok", "", Some(loaded[k]))
     /\ UNCHANGED <<backend, procs, session_state, page, snippets, json_file, db_table, now, hist>>

JSONSnippetRepo_delete(snippet_id) ==
  LET loaded == JSON_load(json_file)
      k == JSON_find(loaded, snippet_id)
  IN /\ backend = "json"
     /\ IF k = 0
        THEN /\ last' = NotFound("delete", snippet_id, <<>>, FALSE, FALSE)
             /\ UNCHANGED json_file
        ELSE /\ json_file' = JSON_save(del(loaded, k))
             /\ last' = Call("delete", Some(snippet_id), FALSE, <<>>, FALSE,
                             FALSE, "ok", "", None)
     /\ UNCHANGED <<backend, procs, session_state, page, snippets, db_table, now, hist>>

JSONSnippetRepo_toggle_favorite(snippet_id) ==
  LET loaded == JSON_load(json_file)
      k == JSON_find(loaded, snippet_id)
  IN /\ backend = "json"
     /\ IF k = 0
        THEN /\ last' = NotFound("toggle_favorite", snippet_id, <<>>, FALSE,
                                 FALSE)
             /\ UNCHANGED json_file
        ELSE /\ json_file' = JSON_save([loaded EXCEPT ![k].favorite = ~@])
             /\ last' = Call("toggle_favorite", Some(snippet_id), FALSE, <<>>,
                             FALSE, FALSE, "ok", "", None)
     /\ UNCHANGED <<backend, procs, session_state, page, snippets, db_table, now, hist>>

\* lines 423-428: no check of remove without tags
JSONSnippetRepo_tag(snippet_id, tags, remove, sort) ==
  LET loaded == JSON_load(json_file)
      k == JSON_find(loaded, snippet_id)
  IN /\ backend = "json"
     /\ IF k = 0
        THEN /\ last' = NotFound("tag", snippet_id, tags, remove, sort)
             /\ UNCHANGED json_file
        ELSE \E new_tags \in update_tags(loaded[k], tags, remove, sort) :
               /\ json_file' = JSON_save([loaded EXCEPT ![k].tags = Some(new_tags)])
               /\ last' = Call("tag", Some(snippet_id), FALSE, tags, remove,
                               sort, "ok", "", None)
     /\ UNCHANGED <<backend, procs, session_state, page, snippets, db_table, now, hist>>

\* lines 371-388: the term is stripped, then looked up in title and code
JSONSnippetRepo_search(term, language) ==
  LET term1 == lower(strip(term))
  IN /\ backend = "json"
     /\ last' = Found(term, language,
                      SelectSeq(JSON_load(json_file),
                        LAMBDA s :
                          /\ \/ contains(term1, lower(s.title))
                             \/ contains(term1, lower(s.code))
                          /\ language_matches(s, language)))
     /\ UNCHANGED <<backend, procs, session_state, page, snippets, json_file, db_table, now, hist>>

(* ------------------------------ the calls ------------------------------ *)

\* the keyword arguments snippets are built from
K1 ==
  [id |-> None, title |-> T_abc, code |-> T_ab, description |-> None,
   language |-> PYTHON, tags |-> None, favorite |-> FALSE, stamps |-> "omitted"]

K2 ==
  [id |-> None, title |-> T_bcd, code |-> T_cd, description |-> Some(T_d),
   language |-> RUST, tags |-> Some(<<"b", ",", "a">>), favorite |-> TRUE,
   stamps |-> "none"]

\* ids a caller sets on a snippet before adding it
PresetIds == {1, 2}

\* the snippets a caller can hand to add at time t: built by the raw
\* constructor (with or without an id) or by create_snippet
NewSnippets(t) ==
  {Snippet(K1, t)}
    \cup {Snippet([K1 EXCEPT !.id = Some(p)], t) : p \in PresetIds}
    \cup {create_snippet(kw, t)[1] :
            kw \in {k \in {K2} : create_snippet(k, t) # None}}

\* the ids calls are made with
Ids == 0..MaxId

\* the tag arguments of one call (Spec)
TagArgs == {<<>>, << <<"a">> >>}

\* the clock advances between calls
Tick ==
  /\ now < MaxTime
  /\ now' = now + 1
  /\ UNCHANGED <<backend, procs, session_state, page, snippets, json_file, db_table, last, hist>>

Init ==
  /\ backend \in Backends
  /\ InMemorySnippetRepo_init
  /\ now = ImportTime
  /\ last = NoCall
  /\ hist = [assigned |-> {}, preset |-> FALSE]
  /\ procs = NoProcs
  /\ session_state = session_state_init
  /\ page = NoPage

Next ==
  \/ Tick
  \/ \E s \in NewSnippets(now) : InMemorySnippetRepo_add(s)
  \/ \E s \in NewSnippets(now) : DBSnippetRepo_add(s)
  \/ \E s \in NewSnippets(now) : JSONSnippetRepo_add(s)
  \/ \E id \in Ids : InMemorySnippetRepo_get(id)
  \/ \E id \in Ids : DBSnippetRepo_get(id)
  \/ \E id \in Ids : JSONSnippetRepo_get(id)
  \/ \E id \in Ids : InMemorySnippetRepo_delete(id)
  \/ \E id \in Ids : DBSnippetRepo_delete(id)
  \/ \E id \in Ids : JSONSnippetRepo_delete(id)
  \/ \E id \in Ids : InMemorySnippetRepo_toggle_favorite(id)
  \/ \E id \in Ids : DBSnippetRepo_toggle_favorite(id)
  \/ \E id \in Ids : JSONSnippetRepo_toggle_favorite(id)
  \/ \E id \in Ids, tags \in TagArgs, remove \in BOOLEAN, sort \in BOOLEAN :
       InMemorySnippetRepo_tag(id, tags, remove, sort)
  \/ \E id \in Ids, tags \in TagArgs, remove \in BOOLEAN, sort \in BOOLEAN :
       DBSnippetRepo_tag(id, tags, remove, sort)
  \/ \E id \in Ids, tags \in TagArgs, remove \in BOOLEAN, sort \in BOOLEAN :
       JSONSnippetRepo_tag(id, tags, remove, sort)

Spec == Init /\ [][Next]_vars

(* ------------------- add, get and delete alone (SpecIds) --------------- *)

NextIds ==
  \/ Tick
  \/ \E s \in NewSnippets(now) : InMemorySnippetRepo_add(s)
  \/ \E s \in NewSnippets(now) : DBSnippetRepo_add(s)
  \/ \E s \in NewSnippets(now) : JSONSnippetRepo_add(s)
  \/ \E id \in Ids : InMemorySnippetRepo_get(id)
  \/ \E id \in Ids : DBSnippetRepo_get(id)
  \/ \E id \in Ids : JSONSnippetRepo_get(id)
  \/ \E id \in Ids : InMemorySnippetRepo_delete(id)
  \/ \E id \in Ids : DBSnippetRepo_delete(id)
  \/ \E id \in Ids : JSONSnippetRepo_delete(id)

SpecIds == Init /\ [][NextIds]_vars

(* ------------------ add and toggle_favorite (SpecFav) ------------------ *)

NextFav ==
  \/ Tick
  \/ \E s \in NewSnippets(now) : InMemorySnippetRepo_add(s)
  \/ \E s \in NewSnippets(now) : DBSnippetRepo_add(s)
  \/ \E s \in NewSnippets(now) : JSONSnippetRepo_add(s)
  \/ \E id \in Ids : InMemorySnippetRepo_toggle_favorite(id)
  \/ \E id \in Ids : DBSnippetRepo_toggle_favorite(id)
  \/ \E id \in Ids : JSONSnippetRepo_toggle_favorite(id)

SpecFav == Init /\ [][NextFav]_vars

(* ----------------------- add and search (SpecSearch) ------------------- *)

\* the terms and the language filters searches are made with
Terms == {<<"a">>, <<"B", "c">>, <<"c", "d">>, <<" ", "a">>, <<"o">>, <<>>}

LanguageFilters == {None, Some(PYTHON), Some(RUST)}

NextSearch ==
  \/ \E s \in NewSnippets(now) : InMemorySnippetRepo_add(s)
  \/ \E s \in NewSnippets(now) : DBSnippetRepo_add(s)
  \/ \E s \in NewSnippets(now) : JSONSnippetRepo_add(s)
  \/ \E term \in Terms, language \in LanguageFilters :
       InMemorySnippetRepo_search(term, language)
  \/ \E term \in Terms, language \in LanguageFilters :
       DBSnippetRepo_search(term, language)
  \/ \E term \in Terms, language \in LanguageFilters :
       JSONSnippetRepo_search(term, language)

SpecSearch == Init /\ [][NextSearch]_vars

(* ------------- the JSON file across instances (SpecJson) --------------- *)

NextJson ==
  \/ Tick
  \/ \E s \in NewSnippets(now) : JSONSnippetRepo_add(s)
  \/ \E id \in Ids : JSONSnippetRepo_delete(id)
  \/ JSONSnippetRepo_reopen

SpecJson == Init /\ [][NextJson]_vars

(* ---------------- tagging one stored snippet (SpecTags) ---------------- *)

\* the characters of the tag strings a snippet is stored with at the start
TagChars == {"a", "b", ","}

\* every text over TagChars of at most n characters
Texts(n) == UNION {[1..k -> TagChars] : k \in 0..n}

\* the tag strings the stored snippet can start with
TagStrings == {None} \cup {Some(t) : t \in Texts(MaxTagStrLen)}

\* the tags a call can name: plain, padded with whitespace, empty, a comma
ArgTags == {<<"a">>, <<"b">>, <<" ", "b">>, <<>>, <<",">>}

\* the tag arguments of one call (SpecTags)
ArgLists == UNION {[1..k -> ArgTags] : k \in 0..MaxArgs}

\* one snippet, id 1, is stored; its tag string is any of TagStrings
InitTags ==
  /\ backend \in Backends
  /\ now = ImportTime
  /\ last = NoCall
  /\ hist = [assigned |-> {1}, preset |-> FALSE]
  /\ procs = NoProcs
  /\ session_state = session_state_init
  /\ page = NoPage
  /\ \E tags \in TagStrings :
       LET s == [Snippet(K1, now) EXCEPT !.id = Some(1), !.tags = tags]
       IN /\ snippets = IF backend = "mem"
                        THEN <<[key |-> 1, value |-> s]>> ELSE <<>>
          /\ db_table = IF backend = "db" THEN <<s>> ELSE <<>>
          /\ json_file = IF backend = "json" THEN JSON_save(<<s>>) ELSE <<>>

\* the snippets list() returns, for the repository in use
stored_list ==
  CASE backend = "mem" -> InMemorySnippetRepo_list
    [] backend = "db" -> DBSnippetRepo_list
    [] backend = "json" -> JSONSnippetRepo_list

\* tag is called while the stored tag string is short enough
TagBound ==
  \A i \in Indices(stored_list) :
    IF stored_list[i].tags = None THEN TRUE
    ELSE Len(stored_list[i].tags[1]) <= MaxTagStrLen

NextTags ==
  \/ \E tags \in ArgLists, remove \in BOOLEAN, sort \in BOOLEAN :
       TagBound /\ InMemorySnippetRepo_tag(1, tags, remove, sort)
  \/ \E tags \in ArgLists, remove \in BOOLEAN, sort \in BOOLEAN :
       TagBound /\ DBSnippetRepo_tag(1, tags, remove, sort)
  \/ \E tags \in ArgLists, remove \in BOOLEAN, sort \in BOOLEAN :
       TagBound /\ JSONSnippetRepo_tag(1, tags, remove, sort)

SpecTags == InitTags /\ [][NextTags]_vars

(* ------------- the repository as the API and the CLI use it ------------ *)

\* the three stores, of which the back-end in use holds the snippets
Store == [snippets |-> snippets, json_file |-> json_file, db_table |-> db_table]

SetStore(st) ==
  /\ snippets' = st.snippets
  /\ json_file' = st.json_file
  /\ db_table' = st.db_table

\* repo.get(snippet_id): the snippet, None (in-memory) or the exception
repo_get(snippet_id) ==
  CASE backend = "mem" ->
         IF snippet_id \in dict_keys(snippets)
         THEN [result |-> "ok", ret |-> Some(dict_get(snippets, snippet_id))]
         ELSE [result |-> "None", ret |-> None]
    [] backend = "db" ->
         IF snippet_id \in db_keys(db_table)
         THEN [result |-> "ok",
               ret |-> Some(db_table[db_row(db_table, snippet_id)])]
         ELSE [result |-> "SnippetNotFoundError", ret |-> None]
    [] backend = "json" ->
         LET loaded == JSON_load(json_file)
             k == JSON_find(loaded, snippet_id)
         IN IF k # 0 THEN [result |-> "ok", ret |-> Some(loaded[k])]
            ELSE [result |-> "SnippetNotFoundError", ret |-> None]

\* repo.add(snippet) for a snippet without an id: the snippet as add leaves
\* it and the store that holds it
repo_add(snippet) ==
  CASE backend = "mem" ->
         LET stored == [snippet EXCEPT !.id = Some(InMemory_next_id(snippets))]
         IN [stored |-> stored,
             store |-> [Store EXCEPT
                          !.snippets = dict_set(snippets, stored.id[1], stored)]]
    [] backend = "db" ->
         LET stored == [snippet EXCEPT !.id = Some(db_next_id(db_table))]
         IN [stored |-> stored,
             store |-> [Store EXCEPT !.db_table = Append(db_table, stored)]]
    [] backend = "json" ->
         LET loaded == JSON_load(json_file)
             stored == [snippet EXCEPT !.id = Some(JSON_next_id(loaded)),
                                       !.created_at = now,
                                       !.updated_at = now]
         IN [stored |-> stored,
             store |-> [Store EXCEPT
                          !.json_file = JSON_save(Append(loaded, stored))]]

\* repo.delete(snippet_id) for a stored id
repo_delete(snippet_id) ==
  CASE backend = "mem" ->
         [Store EXCEPT !.snippets = dict_pop(snippets, snippet_id)]
    [] backend = "db" ->
         [Store EXCEPT !.db_table = del(db_table, db_row(db_table, snippet_id))]
    [] backend = "json" ->
         LET loaded == JSON_load(json_file)
         IN [Store EXCEPT
               !.json_file = JSON_save(del(loaded, JSON_find(loaded, snippet_id)))]

\* repo.toggle_favorite(snippet_id) for a stored id
repo_toggle_favorite(snippet_id) ==
  CASE backend = "mem" ->
         LET snippet == dict_get(snippets, snippet_id)
         IN [Store EXCEPT
               !.snippets = dict_set(snippets, snippet_id,
                              [snippet EXCEPT !.favorite = ~snippet.favorite])]
    [] backend = "db" ->
         [Store EXCEPT
            !.db_table[db_row(db_table, snippet_id)].favorite = ~@]
    [] backend = "json" ->
         LET loaded == JSON_load(json_file)
             k == JSON_find(loaded, snippet_id)
         IN [Store EXCEPT
               !.json_file = JSON_save([loaded EXCEPT ![k].favorite = ~@])]

\* repo.tag(snippet_id, *tags, remove=.., sort=..) for a stored id and at
\* least one tag: the stores it can leave
repo_tag(snippet_id, tags, remove, sort) ==
  LET snippet == repo_get(snippet_id).ret[1]
      tagged(new_tags) ==
        CASE backend = "mem" ->
               [Store EXCEPT
                  !.snippets = dict_set(snippets, snippet_id,
                                 [snippet EXCEPT !.tags = Some(new_tags)])]
          [] backend = "db" ->
               [Store EXCEPT
                  !.db_table[db_row(db_table, snippet_id)].tags = Some(new_tags)]
          [] backend = "json" ->
               LET loaded == JSON_load(json_file)
                   k == JSON_find(loaded, snippet_id)
               IN [Store EXCEPT
                     !.json_file =
                        JSON_save([loaded EXCEPT ![k].tags = Some(new_tags)])]
  IN {tagged(new_tags) : new_tags \in update_tags(snippet, tags, remove, sort)}

\* room for one more snippet within the bounds
Room(stored) == Len(stored_list) < MaxStored /\ stored.id[1] <= MaxId

(* -------------------------------- api.py ------------------------------- *)

\* the response of a route: result is the HTTP status ("500" for an
\* exception no handler catches, msg then its name), msg the detail or the
\* kind of body, ret the snippets of the body
Reply(op, id, status, detail, ret, sent) ==
  [Call(op, id, FALSE, <<>>, FALSE, FALSE, status, detail, ret)
     EXCEPT !.sent = sent]

\* snippet = repo.get(snippet_id); if not snippet: raise HTTPException(404):
\* the response when the route ends there, None when it goes on
get_or_404(op, snippet_id) ==
  LET g == repo_get(snippet_id)
  IN IF g.result = "SnippetNotFoundError"
     THEN Some(Reply(op, Some(snippet_id), "500", "SnippetNotFoundError",
                     None, {}))
     ELSE IF g.result = "None"
     THEN Some(Reply(op, Some(snippet_id), "404", "Snippet not found",
                     None, {}))
     ELSE None

\* the request bodies of POST /snippets/
Bodies == {[K1 EXCEPT !.title = T_ab], K1, K2}

\* what the outside services answer
PistonAnswers == {"ok", "bad status", "bad format"}

ServiceAnswers == {"ok", "error"}

\* lines 28-39
api_create_snippet(body) ==
  LET made == create_snippet(body, now)
  IN IF made = None
     THEN /\ last' = [Reply("POST /snippets/", None, "422",
                            "Title must be at least 3 characters long.",
                            None, {})
                        EXCEPT !.body = Some(body)]
          /\ UNCHANGED <<backend, procs, session_state, page, snippets, json_file, db_table, now, hist>>
     ELSE LET a == repo_add(made[1])
          IN /\ Room(a.stored)
             /\ SetStore(a.store)
             /\ last' = [Reply("POST /snippets/", a.stored.id, "200", "",
                               Some(a.stored), {})
                           EXCEPT !.body = Some(body)]
             /\ hist' = Assigned(a.stored.id[1], made[1])
             /\ UNCHANGED <<backend, procs, session_state, page, now>>

\* lines 42-50
api_read_snippets ==
  /\ last' = IF stored_list = <<>>
             THEN Reply("GET /snippets/", None, "404", "No snippets found",
                        <<>>, {})
             ELSE Reply("GET /snippets/", None, "200", "", stored_list, {})
  /\ UNCHANGED <<backend, procs, session_state, page, snippets, json_file, db_table, now, hist>>

\* lines 53-62
api_read_snippet(snippet_id) ==
  LET op == "GET /snippets/{id}"
      early == get_or_404(op, snippet_id)
  IN /\ last' = IF early # None THEN early[1]
                ELSE Reply(op, Some(snippet_id), "200", "",
                           repo_get(snippet_id).ret, {})
     /\ UNCHANGED <<backend, procs, session_state, page, snippets, json_file, db_table, now, hist>>

\* lines 65-75
api_delete_snippet(snippet_id) ==
  LET op == "DELETE /snippets/{id}"
      early == get_or_404(op, snippet_id)
  IN /\ IF early # None
        THEN /\ last' = early[1]
             /\ UNCHANGED <<snippets, json_file, db_table>>
        ELSE /\ SetStore(repo_delete(snippet_id))
             /\ last' = Reply(op, Some(snippet_id), "200",
                              "deleted successfully", None, {})
     /\ UNCHANGED <<backend, procs, session_state, page, now, hist>>

\* lines 78-89
api_favorite_snippet(snippet_id) ==
  LET op == "POST /snippets/{id}/favorite"
      early == get_or_404(op, snippet_id)
  IN /\ IF early # None
        THEN /\ last' = early[1]
             /\ UNCHANGED <<snippets, json_file, db_table>>
        ELSE /\ SetStore(repo_toggle_favorite(snippet_id))
             /\ last' = Reply(op, Some(snippet_id), "200", "favorited",
                              None, {})
     /\ UNCHANGED <<backend, procs, session_state, page, now, hist>>

\* lines 105-120: tags is a required query parameter, so at least one tag
api_tag_snippet(snippet_id, tags, remove, sort) ==
  LET op == "POST /snippets/{id}/tags"
      early == get_or_404(op, snippet_id)
  IN /\ IF early # None
        THEN /\ last' = early[1]
             /\ UNCHANGED <<snippets, json_file, db_table>>
        ELSE /\ \E st \in repo_tag(snippet_id, tags, remove, sort) :
                  SetStore(st)
             /\ last' = [Reply(op, Some(snippet_id), "200", "tagged", None, {})
                           EXCEPT !.tags = tags, !.remove = remove]
     /\ UNCHANGED <<backend, procs, session_state, page, now, hist>>

\* lines 123-160: only SnippetNotFoundError is caught; a None from get fails
\* at snippet.language with an AttributeError
api_run_snippet(snippet_id, answer) ==
  LET op == "POST /snippets/{id}/run"
      g == repo_get(snippet_id)
  IN /\ last' =
          IF g.result = "SnippetNotFoundError"
          THEN Reply(op, Some(snippet_id), "200", "error", None, {})
          ELSE IF g.result = "None"
          THEN Reply(op, Some(snippet_id), "500", "AttributeError", None, {})
          ELSE IF answer = "bad status"
          THEN Reply(op, Some(snippet_id), "500", "HTTPError", None,
                     {"piston"})
          ELSE IF answer = "bad format"
          THEN Reply(op, Some(snippet_id), "500",
                     "Unexpected response format from Piston API", None,
                     {"piston"})
          ELSE Reply(op, Some(snippet_id), "200", "stdout", None, {"piston"})
     /\ UNCHANGED <<backend, procs, session_state, page, snippets, json_file, db_table, now, hist>>

\* lines 163-184
api_create_snippet_image(snippet_id, answer) ==
  LET op == "POST /snippets/{id}/image"
      early == get_or_404(op, snippet_id)
  IN /\ last' = IF early # None THEN early[1]
                ELSE IF answer = "error"
                THEN Reply(op, Some(snippet_id), "500", "Exception", None,
                           {"carbon"})
                ELSE Reply(op, Some(snippet_id), "200", "created", None,
                           {"carbon"})
     /\ UNCHANGED <<backend, procs, session_state, page, snippets, json_file, db_table, now, hist>>

\* lines 187-206: create_gist raises httpx.HTTPError, which the handler for
\* HTTPException does not catch
api_create_snippet_gist(snippet_id, answer) ==
  LET op == "POST /snippets/{id}/gist"
      early == get_or_404(op, snippet_id)
  IN /\ last' = IF early # None THEN early[1]
                ELSE IF answer = "error"
                THEN Reply(op, Some(snippet_id), "500", "HTTPError", None,
                           {"github"})
                ELSE Reply(op, Some(snippet_id), "200", "created", None,
                           {"github"})
     /\ UNCHANGED <<backend, procs, session_state, page, snippets, json_file, db_table, now, hist>>

\* the tags of a tags request
ApiTags == {<< <<"a">> >>}

NextApi ==
  \/ \E body \in Bodies : api_create_snippet(body)
  \/ api_read_snippets
  \/ \E id \in Ids : api_read_snippet(id)
  \/ \E id \in Ids : api_delete_snippet(id)
  \/ \E id \in Ids : api_favorite_snippet(id)
  \/ \E id \in Ids, tags \in ApiTags, remove \in BOOLEAN, sort \in BOOLEAN :
       api_tag_snippet(id, tags, remove, sort)
  \/ \E id \in Ids, answer \in PistonAnswers : api_run_snippet(id, answer)
  \/ \E id \in Ids, answer \in ServiceAnswers :
       api_create_snippet_image(id, answer)
  \/ \E id \in Ids, answer \in ServiceAnswers :
       api_create_snippet_gist(id, answer)

SpecApi == Init /\ [][NextApi]_vars

\* creating, reading and deleting alone
NextCrud ==
  \/ \E body \in Bodies : api_create_snippet(body)
  \/ api_read_snippets
  \/ \E id \in Ids : api_read_snippet(id)
  \/ \E id \in Ids : api_delete_snippet(id)

SpecCrud == Init /\ [][NextCrud]_vars

(* -------------------------------- cli.py ------------------------------- *)

\* the outcome of a command: result is the exit code ("exit 1" for an
\* exception the command does not catch, msg then its name, and for
\* typer.Exit(code=1)), msg the kind of message printed
Exit(op, id, code, printed, sent) ==
  [Call(op, id, FALSE, <<>>, FALSE, FALSE, code, printed, None)
     EXCEPT !.sent = sent]

\* lines 24-36: every command works on a DBSnippetRepo
cli_init == backend = "db"

\* lines 39-55: create_snippet's ValueError is not caught
cli_add(body) ==
  LET made == create_snippet(body, now)
  IN /\ cli_init
     /\ IF made = None
        THEN /\ last' = [Exit("add", None, "exit 1", "ValueError", {})
                          EXCEPT !.body = Some(body)]
             /\ UNCHANGED <<snippets, json_file, db_table, hist>>
        ELSE LET a == repo_add(made[1])
             IN /\ Room(a.stored)
                /\ SetStore(a.store)
                /\ last' = [Exit("add", a.stored.id, "exit 0", "added", {})
                              EXCEPT !.body = Some(body)]
                /\ hist' = Assigned(a.stored.id[1], made[1])
     /\ UNCHANGED <<backend, procs, session_state, page, now>>

\* lines 102-116: the id is looked for in repo.list()
cli_delete(snippet_id) ==
  /\ cli_init
  /\ IF \A i \in Indices(stored_list) : stored_list[i].id # Some(snippet_id)
     THEN /\ last' = Exit("delete", Some(snippet_id), "exit 0", "not found", {})
          /\ UNCHANGED <<snippets, json_file, db_table>>
     ELSE /\ SetStore(repo_delete(snippet_id))
          /\ last' = Exit("delete", Some(snippet_id), "exit 0", "deleted", {})
  /\ UNCHANGED <<backend, procs, session_state, page, now, hist>>

\* lines 134-147
cli_toggle_favorite(snippet_id) ==
  /\ cli_init
  /\ IF repo_get(snippet_id).result = "SnippetNotFoundError"
     THEN /\ last' = Exit("toggle-favorite", Some(snippet_id), "exit 0",
                          "not found", {})
          /\ UNCHANGED <<snippets, json_file, db_table>>
     ELSE /\ SetStore(repo_toggle_favorite(snippet_id))
          /\ last' = Exit("toggle-favorite", Some(snippet_id), "exit 0",
                          "toggled", {})
  /\ UNCHANGED <<backend, procs, session_state, page, now, hist>>

\* a tag command that never asks the repository to sort
cli_tag_unsorted(snippet_id, tag, remove, sort) ==
  /\ cli_init
  /\ IF repo_get(snippet_id).result = "SnippetNotFoundError"
     THEN /\ last' = [Exit("tag", Some(snippet_id), "exit 0", "not found", {})
                       EXCEPT !.tags = <<tag>>, !.remove = remove,
                              !.cli_sort = sort]
          /\ UNCHANGED <<snippets, json_file, db_table>>
     ELSE /\ \E st \in repo_tag(snippet_id, <<tag>>, remove, FALSE) :
               SetStore(st)
          /\ last' = [Exit("tag", Some(snippet_id), "exit 0", "tagged", {})
                       EXCEPT !.tags = <<tag>>, !.remove = remove,
                              !.cli_sort = sort]
  /\ UNCHANGED <<backend, procs, session_state, page, now, hist>>

\* lines 150-167: one tag argument; DBSnippetRepo.tag raises for a missing id
cli_tag(snippet_id, tag, remove, sort) ==
  /\ cli_init
  /\ IF repo_get(snippet_id).result = "SnippetNotFoundError"
     THEN /\ last' = [Exit("tag", Some(snippet_id), "exit 0", "not found", {})
                       EXCEPT !.tags = <<tag>>, !.remove = remove,
                              !.cli_sort = sort]
          /\ UNCHANGED <<snippets, json_file, db_table>>
     ELSE /\ \E st \in repo_tag(snippet_id, <<tag>>, remove, sort) :
               SetStore(st)
          /\ last' = [Exit("tag", Some(snippet_id), "exit 0", "tagged", {})
                       EXCEPT !.tags = <<tag>>, !.remove = remove,
                              !.cli_sort = sort]
  /\ UNCHANGED <<backend, procs, session_state, page, now, hist>>

\* lines 170-234: a Piston status other than 200 ends in typer.Exit(code=1)
cli_run_code(snippet_id, answer) ==
  /\ cli_init
  /\ last' = IF repo_get(snippet_id).result = "SnippetNotFoundError"
             THEN Exit("run", Some(snippet_id), "exit 0", "not found", {})
             ELSE IF answer = "bad status"
             THEN Exit("run", Some(snippet_id), "exit 1", "HTTPError",
                       {"piston"})
             ELSE Exit("run", Some(snippet_id), "exit 0", "completed",
                       {"piston"})
  /\ UNCHANGED <<backend, procs, session_state, page, snippets, json_file, db_table, now, hist>>

\* lines 237-259: repo.get is called outside any try
cli_image(snippet_id, answer) ==
  /\ cli_init
  /\ last' = IF repo_get(snippet_id).result = "SnippetNotFoundError"
             THEN Exit("image", Some(snippet_id), "exit 1",
                       "SnippetNotFoundError", {})
             ELSE IF repo_get(snippet_id).result = "None"
             THEN Exit("image", Some(snippet_id), "exit 0", "not found", {})
             ELSE IF answer = "error"
             THEN Exit("image", Some(snippet_id), "exit 1", "Exception",
                       {"carbon"})
             ELSE Exit("image", Some(snippet_id), "exit 0", "created",
                       {"carbon"})
  /\ UNCHANGED <<backend, procs, session_state, page, snippets, json_file, db_table, now, hist>>

\* lines 262-284: create_gist's httpx.HTTPError is not caught
cli_gist(snippet_id, answer) ==
  /\ cli_init
  /\ last' = IF repo_get(snippet_id).result = "SnippetNotFoundError"
             THEN Exit("gist", Some(snippet_id), "exit 0", "not found", {})
             ELSE IF answer = "error"
             THEN Exit("gist", Some(snippet_id), "exit 1", "HTTPError",
                       {"github"})
             ELSE Exit("gist", Some(snippet_id), "exit 0", "created",
                       {"github"})
  /\ UNCHANGED <<backend, procs, session_state, page, snippets, json_file, db_table, now, hist>>

\* the tag argument of the tag command
CliTags == {<<"a">>, <<"b">>}

NextCli ==
  \/ Tick
  \/ \E body \in Bodies : cli_add(body)
  \/ \E id \in Ids : cli_delete(id)
  \/ \E id \in Ids : cli_toggle_favorite(id)
  \/ \E id \in Ids, tag \in CliTags, remove \in BOOLEAN, sort \in BOOLEAN :
       cli_tag(id, tag, remove, sort)
  \/ \E id \in Ids, answer \in PistonAnswers : cli_run_code(id, answer)
  \/ \E id \in Ids, answer \in ServiceAnswers : cli_image(id, answer)
  \/ \E id \in Ids, answer \in ServiceAnswers : cli_gist(id, answer)

SpecCli == Init /\ [][NextCli]_vars

\* adding and tagging alone, with a tag that holds a comma among the tags
CliTagArgs == CliTags \cup {<<"b", ",", "a">>}

NextCliTag ==
  \/ cli_add(K2)
  \/ \E id \in Ids, tag \in CliTagArgs, remove \in BOOLEAN, sort \in BOOLEAN :
       cli_tag(id, tag, remove, sort)

SpecCliTag == Init /\ [][NextCliTag]_vars

(* ----------- two callers on the same JSON file (SpecRace) --------------- *)

\* the lists an operation can make of the list it loaded, or the list as it
\* is when the operation raises before _save
\*   add 337-349, delete 362-369, toggle_favorite 390-407, tag 409-428
JSON_rewrite(op, id, arg, loaded) ==
  LET k == IF id = None THEN 0 ELSE JSON_find(loaded, id[1])
  IN CASE op = "add" ->
            {[raised |-> FALSE,
              list |-> Append(loaded,
                         [arg[1] EXCEPT !.id = Some(JSON_next_id(loaded)),
                                        !.created_at = now,
                                        !.updated_at = now])]}
       [] op # "add" /\ k = 0 -> {[raised |-> TRUE, list |-> loaded]}
       [] op = "delete" /\ k # 0 ->
            {[raised |-> FALSE, list |-> del(loaded, k)]}
       [] op = "toggle_favorite" /\ k # 0 ->
            {[raised |-> FALSE, list |-> [loaded EXCEPT ![k].favorite = ~@]]}
       [] op = "tag" /\ k # 0 ->
            {[raised |-> FALSE, list |-> [loaded EXCEPT ![k].tags = Some(new_tags)]] :
               new_tags \in update_tags(loaded[k], arg, FALSE, TRUE)}

\* the steps the callers have taken so far
Steps ==
  LET n(p) == CASE procs[p].pc = "idle" -> 0
                [] procs[p].pc = "loaded" -> 1
                [] procs[p].pc = "done" -> 2
  IN n(1) + n(2)

\* lines 324-328, the first statement of every mutating operation: the whole
\* file is read
JSON_load_step(p, op, id, arg) ==
  /\ backend = "json"
  /\ procs[p].pc = "idle"
  /\ procs' = [procs EXCEPT ![p] =
                 [pc |-> "loaded", op |-> op, id |-> id, arg |-> arg,
                  data |-> JSON_load(json_file), result |-> "",
                  load_at |-> Steps, save_at |-> 0]]
  /\ UNCHANGED <<backend, session_state, page, snippets, json_file, db_table,
                 now, last, hist>>

\* lines 330-335, the last statement of every mutating operation: the whole
\* file is rewritten from what the caller loaded (nothing is written when the
\* id was not among the loaded snippets)
JSON_save_step(p) ==
  /\ backend = "json"
  /\ procs[p].pc = "loaded"
  /\ \E out \in JSON_rewrite(procs[p].op, procs[p].id, procs[p].arg,
                             procs[p].data) :
       /\ json_file' = IF out.raised THEN json_file ELSE JSON_save(out.list)
       /\ procs' = [procs EXCEPT
                      ![p].pc = "done",
                      ![p].result = IF out.raised THEN "SnippetNotFoundError"
                                    ELSE "ok",
                      ![p].save_at = Steps]
  /\ UNCHANGED <<backend, session_state, page, snippets, db_table, now, last,
                 hist>>

\* the ids the two callers name
RaceIds == 1..2

NextRace ==
  \/ procs = NoProcs /\ \E s \in {Snippet(K1, now), Snippet(K2, now)} :
                          JSONSnippetRepo_add(s)
  \/ \E p \in Procs, s \in {Snippet(K1, now), Snippet(K2, now)} :
       JSON_load_step(p, "add", None, <<s>>)
  \/ \E p \in Procs, id \in RaceIds : JSON_load_step(p, "delete", Some(id), <<>>)
  \/ \E p \in Procs, id \in RaceIds :
       JSON_load_step(p, "toggle_favorite", Some(id), <<>>)
  \/ \E p \in Procs, id \in RaceIds, tag \in CliTags :
       JSON_load_step(p, "tag", Some(id), <<tag>>)
  \/ \E p \in Procs : JSON_save_step(p)

SpecRace == Init /\ [][NextRace]_vars

(* --------- two DELETE requests at the same time (SpecDeletes) ---------- *)

\* the answer of a request: the status and the detail (or the name of the
\* exception no handler caught)
Answered(p, status, detail) ==
  [procs EXCEPT ![p].pc = "done", ![p].result = status, ![p].arg = <<detail>>]

\* api.py lines 71-73: snippet = repo.get(snippet_id), and the 404 when
\* nothing came back
api_delete_lookup(p, snippet_id) ==
  LET g == repo_get(snippet_id)
      asked == [procs EXCEPT ![p].op = "DELETE /snippets/{id}",
                             ![p].id = Some(snippet_id)]
  IN /\ procs[p].pc = "idle"
     /\ procs' = IF g.result = "SnippetNotFoundError"
                 THEN [asked EXCEPT ![p].pc = "done", ![p].result = "500",
                                    ![p].arg = <<"SnippetNotFoundError">>]
                 ELSE IF g.result = "None"
                 THEN [asked EXCEPT ![p].pc = "done", ![p].result = "404",
                                    ![p].arg = <<"Snippet not found">>]
                 ELSE [asked EXCEPT ![p].pc = "found", ![p].data = <<g.ret[1]>>]
     /\ UNCHANGED <<backend, session_state, page, snippets, json_file, db_table,
                    now, last, hist>>

\* api.py lines 74-75: repo.delete(snippet.id), which raises
\* SnippetNotFoundError when the id is no longer stored, and the confirmation
api_delete_delete(p) ==
  LET id == procs[p].data[1].id[1]
  IN /\ procs[p].pc = "found"
     /\ IF repo_get(id).result = "ok"
        THEN /\ SetStore(repo_delete(id))
             /\ procs' = Answered(p, "200", "deleted successfully")
        ELSE /\ UNCHANGED <<snippets, json_file, db_table>>
             /\ procs' = Answered(p, "500", "SnippetNotFoundError")
     /\ UNCHANGED <<backend, session_state, page, now, last, hist>>

NextDeletes ==
  \/ procs = NoProcs /\ \E body \in Bodies : api_create_snippet(body)
  \/ \E p \in Procs, id \in RaceIds : api_delete_lookup(p, id)
  \/ \E p \in Procs : api_delete_delete(p)

SpecDeletes == Init /\ [][NextDeletes]_vars

(* --------------------------- streamlit_app.py -------------------------- *)

\* The script runs from top to bottom once for every interaction of the user
\* with a widget of the page it rendered last, and once more, with no
\* interaction, after st.rerun().  A button is true only in the run its click
\* started, and only where the script reaches it.  Widgets without a key are
\* told apart by their label and arguments, so the radio, whose index follows
\* current_menu, shows current_menu unless the user has just chosen another
\* option.

\* lines 30-37: the options of the sidebar
Menus ==
  {"Add Snippet", "Edit Snippet", "List Snippets", "Search Snippets",
   "Run Snippet", "Delete Snippet"}

\* what the user did to start a run: the widget (its key, or its label when
\* it has no key), and the option, snippet or text that goes with it
Event(kind, menu, id, text) ==
  [kind |-> kind, menu |-> menu, id |-> id, text |-> text]

NoEvent == Event("none", "", 0, <<>>)

\* a request to the API
Request(method, route, id) == [method |-> method, route |-> route, id |-> id]

\* the outcome of a run: the session, the page, the text of the id field, the
\* requests sent and whether st.rerun() ended the run
Rendered(ss, shown, field, sent, rerun) ==
  [ss |-> ss, shown |-> shown, field |-> field, sent |-> sent, rerun |-> rerun]

\* st.session_state.<key> = value
set_state(ss, key, value) ==
  [[ss EXCEPT !.keys = @ \cup {key}] EXCEPT ![key] = value]

\* str.isdigit()
isdigit(text) ==
  /\ text # <<>>
  /\ \A i \in Indices(text) : \E d \in Indices(Digits) : text[i] = Digits[d]

\* a script that leaves the edit and run state as it is when the menu changes
menu_changed_keeps_state(ss, menu) ==
  IF menu # ss.current_menu THEN [ss EXCEPT !.current_menu = menu] ELSE ss

\* lines 49-59: the radio differs from current_menu
menu_changed(ss, menu) ==
  IF menu # ss.current_menu
  THEN [ss EXCEPT
          !.current_menu = menu,
          !.edit_snippet_id = IF "edit_snippet_id" \in ss.keys THEN None ELSE @,
          !.run_snippet_id = IF "run_snippet_id" \in ss.keys THEN None ELSE @,
          !.auto_run = IF "auto_run" \in ss.keys THEN FALSE ELSE @]
  ELSE ss

\* lines 68-145: the snippet view_id names
detail_view(ss, event, ok) ==
  LET snippet_id == ss.view_id
      get == Request("GET", "snippets/{id}", str_int(snippet_id[1]))
      post(route) == Request("POST", route, str_int(snippet_id[1]))
  IN IF ~ok
     THEN Rendered([ss EXCEPT !.view_id = None], "", <<>>, <<get>>, TRUE)
     ELSE CASE event.kind = "toggle_favorite" ->
                 Rendered(ss, "", <<>>, <<get, post("snippets/{id}/favorite")>>,
                          TRUE)
            [] event.kind \in {"Add Tags", "remove_tags"} ->
                 Rendered(ss, "", <<>>, <<get, post("snippets/{id}/tags")>>, TRUE)
            [] event.kind = "edit_snippet" ->
                 Rendered(set_state([ss EXCEPT !.current_menu = "Edit Snippet"],
                                    "edit_snippet_id", snippet_id),
                          "", <<>>, <<get>>, TRUE)
            [] event.kind = "run_snippet" ->
                 Rendered([set_state(
                             set_state([ss EXCEPT !.current_menu = "Run Snippet"],
                                       "run_snippet_id", snippet_id),
                             "auto_run", TRUE)
                             EXCEPT !.view_id = None],
                          "", <<>>, <<get>>, TRUE)
            [] event.kind = "delete_snippet" ->
                 Rendered([ss EXCEPT !.view_id = None], "", <<>>,
                          <<get, Request("DELETE", "snippets/{id}",
                                         str_int(snippet_id[1]))>>, TRUE)
            [] event.kind = "gist_snippet" ->
                 Rendered(ss, "detail", <<>>, <<get>>, FALSE)
            [] event.kind = "back_to_list" ->
                 Rendered([ss EXCEPT !.view_id = None], "", <<>>, <<get>>, TRUE)
            [] OTHER -> Rendered(ss, "detail", <<>>, <<get>>, FALSE)

\* lines 147-169
list_menu(ss, event, ok) ==
  LET get == Request("GET", "snippets/", <<>>)
  IN IF ok /\ event.kind = "view"
     THEN Rendered([ss EXCEPT !.view_id = Some(event.id)], "", <<>>, <<get>>,
                   TRUE)
     ELSE Rendered(ss, IF ok THEN "list" ELSE "list empty", <<>>, <<get>>,
                   FALSE)

\* lines 171-257: event.text is the title and the code, event.id the id of
\* the reply
add_menu(ss, event, ok) ==
  LET post == Request("POST", "snippets/", <<>>)
  IN IF event.kind = "Add" /\ strip(event.text) # <<>>
     THEN IF ok
          THEN Rendered([ss EXCEPT !.view_id = Some(event.id),
                                   !.current_menu = "List Snippets"],
                        "", <<>>, <<post>>, TRUE)
          ELSE Rendered(ss, "add", <<>>, <<post>>, FALSE)
     ELSE IF event.kind = "Create Gist" /\ strip(event.text) # <<>>
     THEN Rendered(ss, "add", <<>>, <<Request("POST", "snippets/gist/", <<>>)>>,
                   FALSE)
     ELSE Rendered(ss, "add", <<>>, <<>>, FALSE)

\* line 339: api.py has no PUT route, so the update is never a success
put_is_success == FALSE

\* lines 259-354
edit_menu(ss, event, ok) ==
  IF "edit_snippet_id" \notin ss.keys \/ ss.edit_snippet_id = None
  THEN IF event.kind = "Back to List"
       THEN Rendered([ss EXCEPT !.current_menu = "List Snippets"], "", <<>>,
                     <<>>, TRUE)
       ELSE Rendered(ss, "edit none", <<>>, <<>>, FALSE)
  ELSE LET snippet_id == ss.edit_snippet_id
           get == Request("GET", "snippets/{id}", str_int(snippet_id[1]))
           put == Request("PUT", "snippets/{id}", str_int(snippet_id[1]))
           back == [[ss EXCEPT !.view_id = snippet_id]
                      EXCEPT !.edit_snippet_id = None,
                             !.current_menu = "List Snippets"]
       IN IF ~ok
          THEN LET ss1 == set_state(ss, "edit_snippet_id", None)
               IN IF event.kind = "Back to List"
                  THEN Rendered([ss1 EXCEPT !.current_menu = "List Snippets"],
                                "", <<>>, <<get>>, TRUE)
                  ELSE Rendered(ss1, "edit none", <<>>, <<get>>, FALSE)
          ELSE IF event.kind = "Update Snippet"
          THEN IF put_is_success
               THEN Rendered(back, "", <<>>, <<get, put>>, TRUE)
               ELSE Rendered(ss, "edit form", <<>>, <<get, put>>, FALSE)
          ELSE IF event.kind = "Cancel"
          THEN Rendered(back, "", <<>>, <<get>>, TRUE)
          ELSE Rendered(ss, "edit form", <<>>, <<get>>, FALSE)

\* lines 356-393: the buttons of the results are inside `if st.button("Search")`
search_menu(ss, event, ok) ==
  LET get == Request("GET", "snippets/search/", <<>>)
  IN IF event.kind = "Search"
     THEN IF ok
          THEN IF event.kind = "view"
               THEN Rendered([ss EXCEPT !.view_id = Some(event.id)], "", <<>>,
                             <<get>>, TRUE)
               ELSE IF event.kind \in {"Clear Search", "Back to List"}
               THEN Rendered([ss EXCEPT !.view_id = None], "", <<>>, <<get>>,
                             TRUE)
               ELSE Rendered(ss, "search results", <<>>, <<get>>, FALSE)
          ELSE Rendered(ss, "search", <<>>, <<get>>, FALSE)
     ELSE Rendered(ss, "search", <<>>, <<>>, FALSE)

\* a Run menu that never runs by itself
never_auto_run(ss, snippet_id) == FALSE

\* lines 408-414
should_auto_run(ss, snippet_id) ==
  /\ "auto_run" \in ss.keys
  /\ ss.auto_run
  /\ snippet_id # <<>>
  /\ isdigit(snippet_id)

\* lines 395-455: typed is the text of the id field when the user has put
\* one there; the buttons of the result are inside `if st.button("Run") or
\* should_auto_run`
run_menu(ss, event, ok, typed) ==
  LET default_snippet_id ==
        IF "run_snippet_id" \in ss.keys /\ ss.run_snippet_id # None
        THEN str_int(ss.run_snippet_id[1])
        ELSE <<>>
      snippet_id == IF typed = None THEN default_snippet_id ELSE typed[1]
      post == Request("POST", "snippets/{id}/run", snippet_id)
      get == Request("GET", "snippets/{id}", snippet_id)
  IN IF event.kind = "Run" \/ should_auto_run(ss, snippet_id)
     THEN LET ss1 == IF "auto_run" \in ss.keys
                     THEN [ss EXCEPT !.auto_run = FALSE] ELSE ss
          IN IF ~isdigit(snippet_id)
             THEN Rendered(ss1, "run", snippet_id, <<>>, FALSE)
             ELSE IF ~ok
             THEN Rendered(ss1, "run", snippet_id, <<post>>, FALSE)
             ELSE IF event.kind = "view" /\ str_int(event.id) = snippet_id
             THEN Rendered([ss1 EXCEPT !.view_id = Some(event.id),
                                       !.current_menu = "List Snippets"],
                           "", snippet_id, <<post, get>>, TRUE)
             ELSE IF event.kind = "Back to List"
             THEN Rendered([ss1 EXCEPT !.current_menu = "List Snippets"],
                           "", snippet_id, <<post, get>>, TRUE)
             ELSE Rendered(ss1, "run result", snippet_id, <<post, get>>, FALSE)
     ELSE Rendered(ss, "run", snippet_id, <<>>, FALSE)

\* lines 457-473: event.text is the text of the id field
delete_menu(ss, event, ok) ==
  IF event.kind = "Delete" /\ isdigit(event.text)
  THEN LET delete == Request("DELETE", "snippets/{id}", event.text)
       IN IF ok
          THEN Rendered([ss EXCEPT !.view_id = None], "", <<>>, <<delete>>, TRUE)
          ELSE Rendered(ss, "delete", <<>>, <<delete>>, FALSE)
  ELSE Rendered(ss, "delete", <<>>, <<>>, FALSE)

\* lines 21-475: one run of the script; ok says whether the API answers the
\* run's request with success, typed is what the id field of the Run menu
\* holds from the user
script(ss0, event, ok, typed) ==
  LET menu == IF event.kind = "select" THEN event.menu ELSE ss0.current_menu
      ss == menu_changed(ss0, menu)
  IN IF ss.current_menu # "List Snippets" /\ ss.view_id # None
     THEN Rendered([ss EXCEPT !.view_id = None], "", <<>>, <<>>, TRUE)
     ELSE IF ss.view_id # None THEN detail_view(ss, event, ok)
     ELSE CASE ss.current_menu = "List Snippets" -> list_menu(ss, event, ok)
            [] ss.current_menu = "Add Snippet" -> add_menu(ss, event, ok)
            [] ss.current_menu = "Edit Snippet" -> edit_menu(ss, event, ok)
            [] ss.current_menu = "Search Snippets" -> search_menu(ss, event, ok)
            [] ss.current_menu = "Run Snippet" -> run_menu(ss, event, ok, typed)
            [] ss.current_menu = "Delete Snippet" -> delete_menu(ss, event, ok)

\* the widgets of a page the user can act on, besides the sidebar
Widgets(shown) ==
  CASE shown = "detail" ->
         {"toggle_favorite", "Add Tags", "remove_tags", "edit_snippet",
          "run_snippet", "delete_snippet", "gist_snippet", "back_to_list"}
    [] shown = "list" -> {"view"}
    [] shown = "add" -> {"Add", "Create Gist"}
    [] shown = "edit none" -> {"Back to List"}
    [] shown = "edit form" -> {"Update Snippet", "Cancel"}
    [] shown = "search" -> {"Search"}
    [] shown = "search results" ->
         {"Search", "view", "Clear Search", "Back to List"}
    [] shown = "run" -> {"Run", "Snippet ID"}
    [] shown = "run result" -> {"Run", "Snippet ID", "view", "Back to List"}
    [] shown = "delete" -> {"Delete"}
    [] OTHER -> {}

\* the ids of the snippets the API serves and the texts the user types
DashIds == 1..2

DashTexts == {<<>>, <<"1">>, <<"x">>}

\* the text the id field of the Run menu holds from the user: what is typed
\* in this run, or what the field of the last page held
typed_id(event) ==
  IF event.kind = "Snippet ID" THEN Some(event.text)
  ELSE IF page.shown \in {"run", "run result"} THEN Some(page.field)
  ELSE None

\* one run of the script and the page it leaves
script_run(event, ok) ==
  LET r == script(session_state, event, ok, typed_id(event))
  IN /\ session_state' = r.ss
     /\ page' = [event |-> event.kind, shown |-> r.shown, field |-> r.field,
                 sent |-> r.sent, rerun |-> r.rerun]
     /\ UNCHANGED <<backend, procs, snippets, json_file, db_table, now, last,
                    hist>>

\* the run st.rerun() asks for
dash_rerun == page.rerun /\ \E ok \in BOOLEAN : script_run(NoEvent, ok)

\* the user chooses another option of the sidebar
dash_select(menu) ==
  /\ ~page.rerun
  /\ menu # session_state.current_menu
  /\ \E ok \in BOOLEAN : script_run(Event("select", menu, 0, <<>>), ok)

\* the user clicks a button or leaves a text field of the page
dash_widget(kind, id, text) ==
  /\ ~page.rerun
  /\ kind \in Widgets(page.shown)
  /\ \E ok \in BOOLEAN : script_run(Event(kind, "", id, text), ok)

NextDash ==
  \/ dash_rerun
  \/ \E menu \in Menus : dash_select(menu)
  \/ \E kind \in UNION {Widgets(shown) :
                          shown \in {"detail", "list", "add", "edit none",
                                     "edit form", "search", "search results",
                                     "run", "run result", "delete"}},
        id \in DashIds, text \in DashTexts : dash_widget(kind, id, text)

SpecDash == Init /\ [][NextDash]_vars

\* st.rerun() starts the next run at once
SpecDashLive == SpecDash /\ WF_vars(dash_rerun)

(* --------- tag, toggle_favorite and the reads (SpecFrame) -------------- *)

\* the terms of the searches between the changes
FrameTerms == {<<"a">>, <<>>}

\* the snippets added: one with its timestamps left out, one made by
\* create_snippet
FrameSnippets == {Snippet(K1, now), create_snippet(K2, now)[1]}

\* the ids the calls name: stored ones and one that is never stored
FrameIds == {0, 1, 2}

NextFrame ==
  \/ Tick
  \/ \E s \in FrameSnippets : InMemorySnippetRepo_add(s)
  \/ \E s \in FrameSnippets : DBSnippetRepo_add(s)
  \/ \E s \in FrameSnippets : JSONSnippetRepo_add(s)
  \/ \E id \in FrameIds : InMemorySnippetRepo_get(id)
  \/ \E id \in FrameIds : DBSnippetRepo_get(id)
  \/ \E id \in FrameIds : JSONSnippetRepo_get(id)
  \/ \E term \in FrameTerms : InMemorySnippetRepo_search(term, None)
  \/ \E term \in FrameTerms : DBSnippetRepo_search(term, None)
  \/ \E term \in FrameTerms : JSONSnippetRepo_search(term, None)
  \/ \E id \in FrameIds : InMemorySnippetRepo_toggle_favorite(id)
  \/ \E id \in FrameIds : DBSnippetRepo_toggle_favorite(id)
  \/ \E id \in FrameIds : JSONSnippetRepo_toggle_favorite(id)
  \/ \E id \in FrameIds, tags \in TagArgs, remove \in BOOLEAN :
       InMemorySnippetRepo_tag(id, tags, remove, TRUE)
  \/ \E id \in FrameIds, tags \in TagArgs, remove \in BOOLEAN :
       DBSnippetRepo_tag(id, tags, remove, TRUE)
  \/ \E id \in FrameIds, tags \in TagArgs, remove \in BOOLEAN :
       JSONSnippetRepo_tag(id, tags, remove, TRUE)

SpecFrame == Init /\ [][NextFrame]_vars

(* ------------------------------ the claims ----------------------------- *)

\* the ids of the stored snippets
StoredIds == {stored_list[i].id[1] : i \in Indices(stored_list)}

\* a step that is a repository call
Stepped ==
  <<last, snippets, json_file, db_table>>' # <<last, snippets, json_file, db_table>>

\* a step that is a call of op
CallStep(op) == last'.op = op /\ Stepped

\* C1 as stated: in the in-memory and JSON back-ends, while no caller has
\* pre-set an id, the id add assigns was never assigned by an earlier add of
\* the repository, deleted since or not.
C1_IdNeverReused ==
  [][(CallStep("add") /\ backend \in {"mem", "json"} /\ ~hist'.preset)
       => last'.id[1] \notin hist.assigned]_vars

\* C1 amended: in the in-memory and JSON back-ends, while no caller has
\* pre-set an id, the id add assigns is one more than the largest id stored
\* at that moment (1 when nothing is stored), so it is the id of no snippet
\* still stored.
C1_IdIsMaxStoredPlusOne ==
  [][(CallStep("add") /\ backend \in {"mem", "json"} /\ ~hist'.preset)
       => /\ last'.id[1] = Max(StoredIds, 0) + 1
          /\ last'.id[1] \notin StoredIds]_vars

\* add has assigned an id in a repository from which a snippet with an
\* assigned id was deleted before
C1_Witness ==
  /\ last.op = "add"
  /\ backend \in {"mem", "json"}
  /\ ~hist.preset
  /\ \E i \in hist.assigned : i \notin StoredIds

\* C2 as stated: the ids of the stored snippets of an in-memory or JSON
\* repository are positive and pairwise distinct in every reachable state.
C2_IdsPositiveDistinct ==
  backend \in {"mem", "json"} =>
    \A i \in Indices(stored_list) :
      /\ stored_list[i].id # None
      /\ stored_list[i].id[1] > 0
      /\ \A j \in Indices(stored_list) :
           i # j => stored_list[i].id # stored_list[j].id

\* C3: right after add(s) for a snippet s without an id, s has an id and
\* get(s.id) returns a snippet equal to s (as add left it) in every field.
C3_AddThenGet ==
  [][(/\ last.op = "add"
      /\ ~last.preset
      /\ CallStep("get")
      /\ last'.id = last.id)
       => /\ last.id # None
          /\ last'.result = "ok"
          /\ last'.ret = last.ret]_vars

\* add has stored a snippet without a pre-set id beside an earlier one, in a
\* repository that has assigned more ids than it now holds snippets
C3_Witness ==
  /\ last.op = "add"
  /\ ~last.preset
  /\ Len(stored_list) = 2
  /\ last.ret[1].description # None
  /\ \E i \in hist.assigned : i \notin StoredIds

\* C4 as stated: after delete(id) of a stored id, list holds no snippet with
\* that id and still holds every other snippet, unchanged.
C4_DeleteRemoves ==
  [][(CallStep("delete") /\ last'.result = "ok")
       => /\ \A i \in Indices(stored_list') : stored_list'[i].id # last'.id
          /\ \A i \in Indices(stored_list) :
               stored_list[i].id # last'.id
                 => \E j \in Indices(stored_list') :
                      stored_list'[j] = stored_list[i]]_vars

C6_MissingIdNotFound ==
  [][(/\ CallStep("delete") \/ CallStep("tag") \/ CallStep("toggle_favorite")
      /\ last'.id[1] \notin StoredIds)
       => /\ last'.result = "SnippetNotFoundError"
          /\ stored_list' = stored_list]_vars

\* C7 as stated: tag(id, remove=true) without tags on a stored id raises
\* ValueError("No tags provided to remove.") and leaves the tags as they
\* were, in every back-end.
C7_RemoveWithoutTags ==
  [][(/\ CallStep("tag")
      /\ last'.remove
      /\ last'.tags = <<>>
      /\ last'.id[1] \in StoredIds)
       => /\ last'.result = "ValueError"
          /\ last'.msg = "No tags provided to remove."
          /\ stored_list' = stored_list]_vars

\* the tag_list of the snippet with id 1 (SpecTags stores no other)
TagList == tag_list(stored_list[1])

\* no entry of the list occurs twice
NoDuplicates(l) == \A i, j \in Indices(l) : l[i] = l[j] => i = j

\* C8 as stated: tag(id, t) with a tag t that is in tag_list leaves tag_list
\* as it was, entries and order, whatever sort is.
C8_AddPresentKeepsList ==
  [][(/\ CallStep("tag")
      /\ ~last'.remove
      /\ Len(last'.tags) = 1
      /\ last'.tags[1] \in Range(TagList))
       => TagList' = TagList]_vars

\* C8 amended: tag(id, t) with a tag t that is in tag_list leaves the set of
\* the non-empty entries of tag_list as it was and leaves every entry once;
\* the order of the entries can change, entries that occurred more than once
\* occur once, and a tag_list of empty entries alone becomes empty.
C8_AddPresentKeepsSet ==
  [][(/\ CallStep("tag")
      /\ ~last'.remove
      /\ Len(last'.tags) = 1
      /\ last'.tags[1] \in Range(TagList))
       => /\ Range(TagList') \ {<<>>} = Range(TagList) \ {<<>>}
          /\ Range(TagList') \in {Range(TagList), {}}
          /\ NoDuplicates(TagList')]_vars

\* tag has added "a" to a snippet that holds it among several tags
C8_Witness ==
  /\ last.op = "tag"
  /\ last.result = "ok"
  /\ ~last.remove
  /\ last.tags = << <<"a">> >>
  /\ Len(TagList) >= 2
  /\ <<"a">> \in Range(TagList)

\* C9 as stated: tag(id, t, remove=true) with a tag t that is not in
\* tag_list, padded with whitespace or not, leaves tag_list as it was:
\* nothing is removed and nothing is added.
C9_RemoveAbsentKeepsList ==
  [][(/\ CallStep("tag")
      /\ last'.remove
      /\ Len(last'.tags) = 1
      /\ last'.tags[1] \notin Range(TagList))
       => TagList' = TagList]_vars

\* C10 as stated: after a tag call on a stored snippet, whatever its
\* arguments, no entry occurs twice in the snippet's tag_list.
C10_NoDuplicateTags ==
  [][(CallStep("tag") /\ last'.result = "ok") => NoDuplicates(TagList')]_vars

\* C11 as stated: after tag(id, t1..tn, remove=true) on a stored snippet none
\* of the named tags is left in tag_list and every tag that was there and was
\* not named is still there.
C11_RemoveNamedTags ==
  [][(CallStep("tag") /\ last'.remove /\ last'.result = "ok")
       => /\ \A k \in Indices(last'.tags) :
               last'.tags[k] \notin Range(TagList')
          /\ \A t \in Range(TagList) :
               t \notin Range(last'.tags) => t \in Range(TagList')]_vars

\* the place in the list of the first snippet with the id
FirstWithId(l, id) ==
  CHOOSE i \in Indices(l) :
    /\ l[i].id = Some(id)
    /\ \A j \in 1..(i - 1) : l[j].id # Some(id)

\* the list with the favorite flag of its k-th snippet negated
Negated(l, k) == [l EXCEPT ![k].favorite = ~l[k].favorite]

\* C12: in every back-end toggle_favorite(id) on a stored id returns, negates
\* the favorite flag of the snippet with that id and changes nothing else
\* (no other snippet, no other field, no place in the list).  The step holds
\* wherever the toggle is made, right after a toggle of the same id too, so
\* two consecutive toggles leave the list as it was before the first.
C12_ToggleNegates ==
  [][(CallStep("toggle_favorite") /\ last'.id[1] \in StoredIds)
       => LET k == FirstWithId(stored_list, last'.id[1])
          IN /\ last'.result = "ok"
             /\ stored_list'[k].favorite = ~stored_list[k].favorite
             /\ stored_list' = Negated(stored_list, k)]_vars

\* toggle_favorite has negated the flag of one of two stored snippets
C12_Witness ==
  /\ last.op = "toggle_favorite"
  /\ last.result = "ok"
  /\ Len(stored_list) = 2
  /\ \E i, j \in Indices(stored_list) :
       stored_list[i].favorite /\ ~stored_list[j].favorite

\* the stored snippets whose title or code holds the term, letter case
\* aside, and whose language is the one asked for, if one is
Matching(term, language) ==
  SelectSeq(stored_list,
    LAMBDA snippet :
      /\ \/ contains(lower(term), lower(snippet.title))
         \/ contains(lower(term), lower(snippet.code))
      /\ (language = None \/ snippet.language = language[1]))

\* C13 as stated: in every back-end search(term, language) returns exactly
\* the stored snippets whose title or code contains the term as a
\* case-insensitive substring and whose language is the given one, if any.
C13_SearchExact ==
  [][CallStep("search")
       => last'.ret = Matching(last'.term, last'.language)]_vars

\* a snippet with its timestamps as ISO-8601 text
IsoStamped(snippet) ==
  [snippet EXCEPT !.created_at = isoformat(snippet.created_at),
                  !.updated_at = isoformat(snippet.updated_at)]

IsoStampedList(l) == [i \in Indices(l) |-> IsoStamped(l[i])]

\* C14: in the JSON back-end every add appends the snippet, as add left it,
\* to what a load of the file yields (timestamps compared as ISO-8601 text),
\* and a repository constructed anew on the file writes nothing, leaves the
\* file as it is and lists exactly the snippets the file held: the N
\* snippets added, field for field.
C14_FreshInstanceListsSame ==
  [][/\ (CallStep("add") /\ backend = "json")
          => IsoStampedList(JSON_load(json_file'))
               = IsoStampedList(Append(JSON_load(json_file), last'.ret[1]))
     /\ CallStep("init")
          => /\ json_file' = json_file
             /\ last'.msg = ""
             /\ IsoStampedList(last'.ret)
                  = IsoStampedList(JSON_load(json_file))]_vars

\* a fresh instance has listed two snippets added at different times, one of
\* them with a description and tags
C14_Witness ==
  /\ last.op = "init"
  /\ Len(last.ret) = 2
  /\ last.ret[1].created_at # last.ret[2].created_at
  /\ \E i \in Indices(last.ret) :
       last.ret[i].description # None /\ last.ret[i].tags # None

\* the routes that look one snippet up and answer 404 when there is none
LookupRoutes ==
  {"GET /snippets/{id}", "DELETE /snippets/{id}",
   "POST /snippets/{id}/favorite", "POST /snippets/{id}/tags",
   "POST /snippets/{id}/image", "POST /snippets/{id}/gist"}

\* C15 as stated: with the database repository the API uses by default, the
\* routes GET and DELETE /snippets/{id} and POST /snippets/{id}/favorite,
\* /tags, /image and /gist answer 404 when the id is not stored.
C15_MissingIdIs404 ==
  [][(/\ backend = "db"
      /\ Stepped
      /\ last'.op \in LookupRoutes
      /\ last'.id[1] \notin StoredIds)
       => last'.result = "404"]_vars

\* C16: POST /snippets/ with a title of fewer than 3 characters answers 422
\* and leaves the stored snippets as they were; with a longer title it
\* answers 200 and stores one more snippet, the others staying as they were;
\* GET /snippets/{id} with the returned id right after it answers 200 with
\* the title, code, language and tags of the request.
C16_CreateValidatesTitle ==
  [][/\ CallStep("POST /snippets/")
          => IF Len(last'.body[1].title) < 3
             THEN last'.result = "422" /\ stored_list' = stored_list
             ELSE /\ last'.result = "200"
                  /\ Len(stored_list') = Len(stored_list) + 1
                  /\ \A i \in Indices(stored_list) :
                       stored_list'[i] = stored_list[i]
                  /\ stored_list'[Len(stored_list')].id = last'.id
                  /\ last'.id[1] \notin StoredIds
     /\ (/\ last.op = "POST /snippets/"
         /\ last.result = "200"
         /\ CallStep("GET /snippets/{id}")
         /\ last'.id = last.id)
          => /\ last'.result = "200"
             /\ last'.ret[1].title = last.body[1].title
             /\ last'.ret[1].code = last.body[1].code
             /\ last'.ret[1].language = last.body[1].language
             /\ last'.ret[1].tags = last.body[1].tags]_vars

\* a snippet with tags and a language other than the default has been
\* created beside an earlier one
C16_Witness ==
  /\ last.op = "POST /snippets/"
  /\ last.result = "200"
  /\ Len(stored_list) = 2
  /\ last.body[1].tags # None
  /\ last.body[1].language = RUST

\* C17 as stated: GET /snippets/ answers 404 exactly when no snippet is
\* stored and otherwise 200 with every stored snippet; after DELETE
\* /snippets/{id} has confirmed the deletion, GET /snippets/{id} answers 404.
C17_ListAndGetAfterDelete ==
  [][/\ CallStep("GET /snippets/")
          => /\ last'.result = "404" <=> stored_list = <<>>
             /\ last'.result # "404"
                  => last'.result = "200" /\ last'.ret = stored_list
     /\ (/\ last.op = "DELETE /snippets/{id}"
         /\ last.result = "200"
         /\ CallStep("GET /snippets/{id}")
         /\ last'.id = last.id)
          => last'.result = "404"]_vars

\* C18 as stated: POST /snippets/{id}/run for an id that is not stored
\* answers 200 with a body that has an error field, whatever the back-end,
\* and sends nothing to the code-execution sandbox.
C18_RunMissingIs200Error ==
  [][(CallStep("POST /snippets/{id}/run") /\ last'.id[1] \notin StoredIds)
       => /\ last'.result = "200"
          /\ last'.msg = "error"
          /\ last'.sent = {}]_vars

\* the commands that act on one snippet
IdCommands == {"delete", "toggle-favorite", "tag", "run", "image", "gist"}

\* C19 as stated: the CLI commands delete, toggle-favorite, tag, run, image
\* and gist, given an id that is not stored, print a not-found message, exit
\* with code 0, call no outside service and leave the store as it was.
C19_CliMissingIdExits0 ==
  [][(/\ Stepped
      /\ last'.op \in IdCommands
      /\ last'.result \in {"exit 0", "exit 1"}
      /\ last'.id[1] \notin StoredIds)
       => /\ last'.result = "exit 0"
          /\ last'.msg = "not found"
          /\ last'.sent = {}
          /\ stored_list' = stored_list]_vars

\* C20 as stated: the CLI add command with a title of fewer than 3
\* characters prints a message for the error, exits with code 0 and stores
\* no snippet.
C20_CliAddShortTitleExits0 ==
  [][(/\ Stepped
      /\ last'.op = "add"
      /\ last'.body # None
      /\ Len(last'.body[1].title) < 3)
       => /\ last'.result = "exit 0"
          /\ stored_list' = stored_list]_vars

\* the list is in ascending order (of code points, as sorted() orders text)
IsSorted(l) == \A i, j \in Indices(l) : i < j => ~StrLess(l[j], l[i])

\* the tag_list of the stored snippet with the id
TagListOf(l, id) == tag_list(l[FirstWithId(l, id)])

BothDone == \A p \in Procs : procs[p].pc = "done"

\* the caller that saved last, and the other one
LastSaver == CHOOSE p \in Procs : \A q \in Procs : procs[q].save_at <= procs[p].save_at

FirstSaver == CHOOSE p \in Procs : p # LastSaver

\* the snippets of the file before either caller read it
LoadedFirst == procs[CHOOSE p \in Procs : procs[p].load_at = 0].data

\* the second caller read the file before the first one rewrote it
Interleaved == procs[LastSaver].load_at < procs[FirstSaver].save_at

\* the files two operations leave when one runs after the other has finished
RanInTurn(first, second, loaded) ==
  UNION {{JSON_save(o2.list) :
            o2 \in JSON_rewrite(second.op, second.id, second.arg, o1.list)} :
         o1 \in JSON_rewrite(first.op, first.id, first.arg, loaded)}

\* C22: two mutating operations on the same JSON file, each a read of the
\* whole file followed by a rewrite of the whole file with no lock, can
\* interleave so that the file lacks the effect of one of them.  Checked as:
\* when the second caller reads before the first has written, the file ends
\* as the last writer alone would have left it, and when the callers run in
\* turn the file holds the effect of both.
C22_LastWriterWins ==
  BothDone =>
    /\ (Interleaved /\ procs[LastSaver].result = "ok")
         => json_file \in
              {JSON_save(o.list) :
                 o \in JSON_rewrite(procs[LastSaver].op, procs[LastSaver].id,
                                    procs[LastSaver].arg, LoadedFirst)}
    /\ ~Interleaved
         => json_file \in RanInTurn(procs[FirstSaver], procs[LastSaver],
                                    LoadedFirst)

\* a lost update: both operations succeeded and the file is not what the two
\* leave in either order
C22_Witness ==
  /\ BothDone
  /\ \A p \in Procs : procs[p].result = "ok"
  /\ json_file \notin RanInTurn(procs[1], procs[2], LoadedFirst)
                        \cup RanInTurn(procs[2], procs[1], LoadedFirst)

\* the id add gives its snippet: one more than the largest id it loaded
AddedId(p) == JSON_next_id(procs[p].data)

\* C29: two JSON adds without a pre-set id running on the same file give
\* their two snippets distinct ids, under every interleaving of their reads
\* and writes.
C29_ConcurrentAddsDistinctIds ==
  (BothDone /\ \A p \in Procs : procs[p].op = "add")
    => AddedId(1) # AddedId(2)

\* C23: a snippet constructed at time t without created_at and updated_at,
\* by the raw constructor (the fields left out or passed as None) or by
\* create_snippet, has both timestamps equal to t, and not to an earlier
\* moment.  Checked on the snippet an add call constructs and hands to a
\* back-end that stores the timestamps as they are.
C23_StampsAreConstructionTime ==
  [][(CallStep("add") /\ backend \in {"mem", "db"})
       => /\ last'.ret[1].created_at = now
          /\ last'.ret[1].updated_at = now]_vars

\* the names of the exceptions a route can end in when no handler catches
\* them (the msg of a reply whose status is then "500")
Uncaught == {"SnippetNotFoundError", "AttributeError", "HTTPError", "ValueError"}

\* C24: when the creation of the gist fails for an existing snippet, the
\* route POST /snippets/{id}/gist catches the failure and answers 500 with
\* the failure's message as detail; the failure never leaves the route
\* uncaught.
C24_GistFailureIsCaught ==
  (/\ last.op = "POST /snippets/{id}/gist"
   /\ "github" \in last.sent
   /\ last.msg # "created")
    => last.result = "500" /\ last.msg \notin Uncaught

\* C25: in the dashboard, after any change of the active menu (a choice in
\* the sidebar, or a button: Back to List, View Snippet, Edit, Run, Cancel),
\* no state of an edit or a run in progress is left behind: outside the Edit
\* menu edit_snippet_id is absent, outside the Run menu run_snippet_id is
\* absent and auto_run is false.
C25_NoStaleEditOrRunState ==
  /\ session_state.current_menu # "Edit Snippet"
       => session_state.edit_snippet_id = None
  /\ session_state.current_menu # "Run Snippet"
       => /\ session_state.run_snippet_id = None
          /\ ~session_state.auto_run

\* the sidebar has taken the user out of the Run menu that the Run button of
\* a snippet's view had opened, after an edit was cancelled earlier
C25_Witness ==
  /\ page.event = "select"
  /\ session_state.current_menu \notin {"Edit Snippet", "Run Snippet"}
  /\ {"edit_snippet_id", "run_snippet_id", "auto_run"} \subseteq session_state.keys

\* the request that runs the snippet the id field names
RunRequest(field) == Request("POST", "snippets/{id}/run", field)

\* the Run button of a snippet's view has just been handled
RunClicked ==
  /\ page.event = "run_snippet"
  /\ session_state.current_menu = "Run Snippet"
  /\ session_state.auto_run

\* the Run menu is shown for the snippet, whose run was requested without a
\* click
AutoSubmitted ==
  /\ page.event = "none"
  /\ session_state.current_menu = "Run Snippet"
  /\ session_state.run_snippet_id # None
  /\ page.field = str_int(session_state.run_snippet_id[1])
  /\ page.sent # <<>>
  /\ page.sent[1] = RunRequest(page.field)
  /\ ~session_state.auto_run

\* C26: after the Run button of a snippet's view, the Run menu is rendered
\* with the snippet's id in the id field and the run is requested by itself,
\* exactly once: auto_run is false afterwards, so later runs of the script
\* request a run only on a click of Run.
C26_AutoRunOnce ==
  /\ RunClicked ~> AutoSubmitted
  /\ [][RunClicked => (AutoSubmitted' /\ page' # page)]_vars
  /\ [][(page' # page /\ page'.shown \in {"run", "run result"}
         /\ page'.event # "Run" /\ page'.sent # <<>>)
          => (RunClicked /\ AutoSubmitted')]_vars

\* the run was requested by itself and the user has acted on the page since
C26_Witness ==
  /\ session_state.current_menu = "Run Snippet"
  /\ session_state.run_snippet_id # None
  /\ "auto_run" \in session_state.keys
  /\ ~session_state.auto_run
  /\ page.shown = "run"
  /\ page.event \in {"view", "Back to List", "Snippet ID"}

\* what DBSnippetRepo.search makes of a list of snippets: the term as given
DB_search_of(list, term, language) ==
  SelectSeq(list,
    LAMBDA snippet :
      /\ \/ contains(lower(term), lower(snippet.title))
         \/ contains(lower(term), lower(snippet.code))
      /\ language_matches(snippet, language))

\* what JSONSnippetRepo.search makes of a list of snippets: the term stripped
JSON_search_of(list, term, language) ==
  SelectSeq(list,
    LAMBDA s :
      /\ \/ contains(lower(strip(term)), lower(s.title))
         \/ contains(lower(strip(term)), lower(s.code))
      /\ language_matches(s, language))

\* C27: holding the same stored snippets, the database and the JSON back-end
\* return the same set of snippets for every term and language filter, the
\* empty term and terms with white space around them included.
C27_DbAndJsonSearchAgree ==
  [][CallStep("search")
       => /\ backend = "json"
               => Range(last'.ret)
                    = Range(DB_search_of(stored_list, last'.term, last'.language))
          /\ backend = "db"
               => Range(last'.ret)
                    = Range(JSON_search_of(stored_list, last'.term,
                                           last'.language))]_vars

\* the stored snippets are as they were, but for the field of the first
\* snippet with the id
OnlyFieldOf(field, id) ==
  /\ Len(stored_list') = Len(stored_list)
  /\ \A i \in Indices(stored_list) :
       IF i = FirstWithId(stored_list, id)
       THEN stored_list'[i] = [stored_list[i] EXCEPT ![field] = stored_list'[i][field]]
       ELSE stored_list'[i] = stored_list[i]

\* C28: in every back-end, tag and toggle_favorite on a stored id change the
\* tags (the favorite flag) of that one snippet and nothing else: its id,
\* title, code, description, language, created_at and updated_at and every
\* other stored snippet are as before; get and search (and list, which they
\* read) change nothing.
C28_OnlyTheNamedFieldChanges ==
  [][/\ (CallStep("tag") /\ last'.result = "ok")
          => OnlyFieldOf("tags", last'.id[1])
     /\ (CallStep("toggle_favorite") /\ last'.result = "ok")
          => OnlyFieldOf("favorite", last'.id[1])
     /\ (last'.op \in {"tag", "toggle_favorite"} /\ last'.result # "ok")
          => stored_list' = stored_list
     /\ last'.op \in {"get", "search"}
          => <<snippets, json_file, db_table>>' = <<snippets, json_file, db_table>>]_vars

\* a snippet has been tagged and another, stored beside it and made at
\* another time, is a favorite
C28_Witness ==
  /\ last.op = "tag"
  /\ last.result = "ok"
  /\ Len(stored_list) = 2
  /\ \E i, j \in Indices(stored_list) :
       /\ stored_list[i].id = last.id
       /\ stored_list[i].tags \notin {None, Some(<<>>)}
       /\ stored_list[j].id # last.id
       /\ stored_list[j].favorite

\* C30: of two DELETE /snippets/{id} requests for the same stored id that run
\* at the same time, each a lookup followed by a delete, exactly one answers
\* 200 and the other 404 under every interleaving; neither ends in a
\* not-found error that nothing handles.
C30_One200One404 ==
  (/\ BothDone
   /\ procs[1].id = procs[2].id
   /\ \E p \in Procs : procs[p].result = "200")
    => \E p, q \in Procs :
         /\ p # q
         /\ procs[p].result = "200"
         /\ procs[q].result = "404"

====
